---------------------------- MODULE Spec2Model ----------------------------
(***************************************************************************)
(* A model of the reverse-idl-parser crate: the schema model, the tag      *)
(* based binary codec of schemas, the byte decoder, the Program Index      *)
(* (OnChainIdl) with its two decode operations, and the IDL compiler.      *)
(*                                                                         *)
(* Conventions.  A Rust String is the sequence of its byte codes, a byte   *)
(* buffer is a sequence of numbers in 0..255, and a u64 discriminator key  *)
(* is its eight base-256 digits, least significant first (TLC's integers   *)
(* are 32 bits wide).  A Result is a record with a field st that is "Ok",  *)
(* "Err" (an error value returned to the caller) or "Panic" (the thread    *)
(* unwinds; nothing is returned).                                          *)
(***************************************************************************)
EXTENDS Integers, Sequences, FiniteSets, TLC

VARIABLES
    mode,          \* which component this behaviour exercises
    schema,        \* codec: the SchemaNode handed to try_to_vec
    serialized,    \* codec: the outcome of try_to_vec
    deserialized,  \* codec: the outcome of SchemaNode::deserialize
    node,          \* decoder: the SchemaNode decoded against
    bytes,         \* decoder: the input buffer
    show_hidden,   \* decoder and index: the caller's show_hidden flag
    value,         \* decoder: the outcome of deserialize_bytes
    idl,           \* index: the OnChainIdl the decode operations read
    call,          \* index: the operation called, "account" or "instruction"
    data,          \* index: account_data or instruction_data
    account_keys,  \* index: the account addresses of an instruction
    parsed,        \* index: the outcome of the call
    history,       \* index: the calls answered so far, each with its outcome
    json,          \* compiler: the document serde_json::from_str returned
    on_chain_idl,  \* compiler: the outcome of parse_idl
    callee,        \* compiler functions: the function of parse_idl.rs called
    arguments,     \* compiler functions: its arguments
    returned       \* compiler functions: its outcome

codecVars == <<schema, serialized, deserialized>>
decodeVars == <<node, bytes, value>>
indexVars == <<idl, call, data, account_keys, parsed, history>>
compileVars == <<json, on_chain_idl>>
functionVars == <<callee, arguments, returned>>
vars == <<mode, codecVars, decodeVars, indexVars, compileVars, functionVars, show_hidden>>

(***************************************************************************)
(* Bounds of the explored inputs.                                          *)
(***************************************************************************)
MaxArrayLen == 2
MaxFields == 2
MaxDecFields == 2
MaxBuf == 3
MaxRawBuf == 6
MaxPayload == 2
MaxKeys == 3
MaxEntries == 2
MaxDiscLen == 9
MaxNameLen == 4
MaxCalls == 3

None == [st |-> "None"]

\* The variables of a component that a behaviour does not exercise.
IdleCodec == schema = None /\ serialized = None /\ deserialized = None
IdleDecode == node = None /\ bytes = <<>> /\ value = None
IdleIndex ==
    /\ idl = None /\ call = "" /\ data = <<>> /\ account_keys = <<>> /\ parsed = None
    /\ history = <<>>
IdleCompile == json = None /\ on_chain_idl = None
IdleFunction == callee = "" /\ arguments = None /\ returned = None

(***************************************************************************)
(* Little-endian integers.                                                 *)
(***************************************************************************)
RECURSIVE LeBytes(_, _)
LeBytes(n, width) ==
    IF width = 0 THEN <<>> ELSE <<n % 256>> \o LeBytes(n \div 256, width - 1)

RECURSIVE LeNat(_)
LeNat(bs) ==
    IF bs = <<>> THEN 0 ELSE Head(bs) + 256 * LeNat(Tail(bs))

Take(bs, n) == SubSeq(bs, 1, n)
Drop(bs, n) == SubSeq(bs, n + 1, Len(bs))

RECURSIVE SeqsUpTo(_, _)
SeqsUpTo(S, n) ==
    IF n = 0 THEN {<<>>}
    ELSE LET shorter == SeqsUpTo(S, n - 1)
         IN  shorter \cup {Append(s, x) : s \in {t \in shorter : Len(t) = n - 1}, x \in S}

(***************************************************************************)
(* The schema model (schema/mod.rs).                                       *)
(***************************************************************************)
PrimitiveKinds ==
    {"Empty", "Pubkey", "String", "I8", "U8", "I16", "U16", "I32", "U32",
     "I64", "U64", "I128", "U128", "F32", "F64", "Bool"}

Prim(k) == [k |-> k]
RemainingBytes == [k |-> "RemainingBytes"]
OptionT(t) == [k |-> "Option", inner |-> t]
ArrayT(n, t) == [k |-> "Array", len |-> n, inner |-> t]
TupleT(ts) == [k |-> "Tuple", items |-> ts]
VecT(t) == [k |-> "Vec", inner |-> t]
StructT(nodes) == [k |-> "Struct", nodes |-> nodes]
EnumT(nodes) == [k |-> "Enum", nodes |-> nodes]
SmallVecT(l, t) == [k |-> "SmallVec", len_ty |-> l, inner |-> t]

SmallVecLen == {"U8", "U16"}

SchemaNode(name, typ, hidden) == [name |-> name, typ |-> typ, is_hidden |-> hidden]

\* Variant: the constructor hides the node.
NewNode_Hidden(name, typ) == SchemaNode(name, typ, TRUE)

\* SchemaNode::new: a node built by the constructor is never hidden.
NewNode(name, typ) == SchemaNode(name, typ, FALSE)


(***************************************************************************)
(* Borsh outcomes.  Written bytes: [ok, bytes].  Read values: [ok, val,    *)
(* rest], rest being the reader after the value.                           *)
(***************************************************************************)
Written(bs) == [ok |-> TRUE, bytes |-> bs]
WriteFailed == [ok |-> FALSE, bytes |-> <<>>]
Then(w1, w2) ==
    IF w1.ok /\ w2.ok THEN Written(w1.bytes \o w2.bytes) ELSE WriteFailed

ReadOk(v, rest) == [ok |-> TRUE, val |-> v, rest |-> rest]
ReadErr == [ok |-> FALSE, val |-> None, rest |-> <<>>]

\* A fixed-width little-endian unsigned integer (u8, u16, u32, u64, usize).
ReadUint(bs, width) ==
    IF Len(bs) < width THEN ReadErr
    ELSE ReadOk(LeNat(Take(bs, width)), Drop(bs, width))

\* String: a u32 length, then that many bytes.
WriteString(s) == Written(LeBytes(Len(s), 4) \o s)
ReadString(bs) ==
    LET n == ReadUint(bs, 4)
    IN  IF ~n.ok THEN ReadErr
        ELSE IF Len(n.rest) < n.val THEN ReadErr
        ELSE ReadOk(Take(n.rest, n.val), Drop(n.rest, n.val))

\* bool: one byte, 0 or 1; any other byte is an error.
WriteBool(b) == Written(<<IF b THEN 1 ELSE 0>>)
ReadBool(bs) ==
    IF bs = <<>> \/ Head(bs) > 1 THEN ReadErr
    ELSE ReadOk(Head(bs) = 1, Tail(bs))

\* SmallVecLen derives Borsh: one byte, the variant's index.
WriteSmallVecLen(l) == Written(<<IF l = "U8" THEN 0 ELSE 1>>)
ReadSmallVecLen(bs) ==
    IF bs = <<>> \/ Head(bs) > 1 THEN ReadErr
    ELSE ReadOk(IF Head(bs) = 0 THEN "U8" ELSE "U16", Tail(bs))

(***************************************************************************)
(* The tags of the schema codec (schema/on_chain_serialization.rs).  The   *)
(* tag match of serialize has an arm for every variant but RemainingBytes, *)
(* and the match of deserialize_reader yields a variant for the tags 0..22 *)
(* only.                                                                   *)
(***************************************************************************)
TagOrder ==
    <<"Empty", "Pubkey", "String", "I8", "U8", "I16", "U16", "I32", "U32",
      "I64", "U64", "I128", "U128", "F32", "F64", "Bool", "Option", "Array",
      "Tuple", "Vec", "Struct", "Enum", "SmallVec">>

HasTag(t) == \E i \in 1..Len(TagOrder) : TagOrder[i] = t.k
TagOf(t) == (CHOOSE i \in 1..Len(TagOrder) : TagOrder[i] = t.k) - 1

RECURSIVE SchemaType_serialize(_)
RECURSIVE SchemaType_serialize_each(_)
RECURSIVE SchemaNode_serialize(_)
RECURSIVE SchemaNode_serialize_each(_)

\* impl BorshSerialize for SchemaType.
SchemaType_serialize(t) ==
    IF ~HasTag(t) THEN WriteFailed
    ELSE LET tag == Written(LeBytes(TagOf(t), 2))
         IN  CASE t.k = "Option" -> Then(tag, SchemaType_serialize(t.inner))
               [] t.k = "Array" ->
                    Then(tag, Then(Written(LeBytes(t.len, 8)), SchemaType_serialize(t.inner)))
               [] t.k = "Vec" -> Then(tag, SchemaType_serialize(t.inner))
               [] t.k = "Struct" ->
                    Then(tag, Then(Written(LeBytes(Len(t.nodes), 8)), SchemaNode_serialize_each(t.nodes)))
               [] t.k = "Enum" ->
                    Then(tag, Then(Written(LeBytes(Len(t.nodes), 8)), SchemaNode_serialize_each(t.nodes)))
               [] t.k = "Tuple" ->
                    Then(tag, Then(Written(LeBytes(Len(t.items), 8)), SchemaType_serialize_each(t.items)))
               [] t.k = "SmallVec" ->
                    Then(tag, Then(WriteSmallVecLen(t.len_ty), SchemaType_serialize(t.inner)))
               [] OTHER -> tag

SchemaType_serialize_each(ts) ==
    IF ts = <<>> THEN Written(<<>>)
    ELSE Then(SchemaType_serialize(Head(ts)), SchemaType_serialize_each(Tail(ts)))

\* SchemaNode derives BorshSerialize: name, typ, is_hidden in field order.
SchemaNode_serialize(n) ==
    Then(WriteString(n.name), Then(SchemaType_serialize(n.typ), WriteBool(n.is_hidden)))

SchemaNode_serialize_each(ns) ==
    IF ns = <<>> THEN Written(<<>>)
    ELSE Then(SchemaNode_serialize(Head(ns)), SchemaNode_serialize_each(Tail(ns)))

RECURSIVE SchemaType_deserialize_reader(_)
RECURSIVE SchemaType_deserialize_n(_, _)
RECURSIVE SchemaNode_deserialize_reader(_)
RECURSIVE SchemaNode_deserialize_n(_, _)

\* impl BorshDeserialize for SchemaType.
SchemaType_deserialize_reader(bs) ==
    LET tag == ReadUint(bs, 2)
    IN  IF ~tag.ok THEN ReadErr
        ELSE IF tag.val <= 15 THEN ReadOk(Prim(TagOrder[tag.val + 1]), tag.rest)
        ELSE IF tag.val = 16 THEN
            LET i == SchemaType_deserialize_reader(tag.rest)
            IN  IF i.ok THEN ReadOk(OptionT(i.val), i.rest) ELSE ReadErr
        ELSE IF tag.val = 17 THEN
            LET n == ReadUint(tag.rest, 8)
                i == SchemaType_deserialize_reader(n.rest)
            IN  IF n.ok /\ i.ok THEN ReadOk(ArrayT(n.val, i.val), i.rest) ELSE ReadErr
        ELSE IF tag.val = 18 THEN
            LET n == ReadUint(tag.rest, 8)
                l == SchemaType_deserialize_n(n.rest, n.val)
            IN  IF n.ok /\ l.ok THEN ReadOk(TupleT(l.val), l.rest) ELSE ReadErr
        ELSE IF tag.val = 19 THEN
            LET i == SchemaType_deserialize_reader(tag.rest)
            IN  IF i.ok THEN ReadOk(VecT(i.val), i.rest) ELSE ReadErr
        ELSE IF tag.val \in {20, 21} THEN
            LET n == ReadUint(tag.rest, 8)
                l == SchemaNode_deserialize_n(n.rest, n.val)
            IN  IF n.ok /\ l.ok
                THEN ReadOk(IF tag.val = 20 THEN StructT(l.val) ELSE EnumT(l.val), l.rest)
                ELSE ReadErr
        ELSE IF tag.val = 22 THEN
            LET l == ReadSmallVecLen(tag.rest)
                i == SchemaType_deserialize_reader(l.rest)
            IN  IF l.ok /\ i.ok THEN ReadOk(SmallVecT(l.val, i.val), i.rest) ELSE ReadErr
        ELSE ReadErr

SchemaType_deserialize_n(bs, n) ==
    IF n = 0 THEN ReadOk(<<>>, bs)
    ELSE LET t == SchemaType_deserialize_reader(bs)
             l == SchemaType_deserialize_n(t.rest, n - 1)
         IN  IF t.ok /\ l.ok THEN ReadOk(<<t.val>> \o l.val, l.rest) ELSE ReadErr

\* SchemaNode derives BorshDeserialize.
SchemaNode_deserialize_reader(bs) ==
    LET name == ReadString(bs)
        typ == SchemaType_deserialize_reader(name.rest)
        hid == ReadBool(typ.rest)
    IN  IF name.ok /\ typ.ok /\ hid.ok
        THEN ReadOk(SchemaNode(name.val, typ.val, hid.val), hid.rest)
        ELSE ReadErr

SchemaNode_deserialize_n(bs, n) ==
    IF n = 0 THEN ReadOk(<<>>, bs)
    ELSE LET t == SchemaNode_deserialize_reader(bs)
             l == SchemaNode_deserialize_n(t.rest, n - 1)
         IN  IF t.ok /\ l.ok THEN ReadOk(<<t.val>> \o l.val, l.rest) ELSE ReadErr

(***************************************************************************)
(* The byte decoder (schema/bytes_deserialize.rs).  A decode outcome is    *)
(* [st, val, rest]: rest is the cursor after the value.  A TypedValue is a *)
(* record tagged k; the numbers of 32 bits and more and the floats are     *)
(* kept as their little-endian bytes, a Pubkey as the 32 bytes its text    *)
(* renders.                                                                *)
(***************************************************************************)
DOk(v, rest) == [st |-> "Ok", val |-> v, rest |-> rest]
DErr == [st |-> "Err", val |-> None, rest |-> <<>>]
DPanic == [st |-> "Panic", val |-> None, rest |-> <<>>]

ValueNode(name, v) == [name |-> name, value |-> v]

PubkeyLen == 32

\* The signed reading of a little-endian integer of one or two bytes.
Signed(n, width) ==
    LET half == IF width = 1 THEN 128 ELSE 32768
    IN  IF n >= half THEN (n - half) - half ELSE n

\* Borsh refuses to read a NaN: exponent bits all ones and a mantissa that
\* is not zero.  bs are the little-endian bytes of an f32 or an f64.
IsNaN(bs) ==
    LET n == Len(bs)
        top == bs[n] % 128
        next == bs[n - 1]
    IN  IF n = 4
        THEN /\ top = 127 /\ next >= 128
             /\ (next % 128 # 0 \/ \E i \in 1..2 : bs[i] # 0)
        ELSE /\ top = 127 /\ next >= 240
             /\ (next % 16 # 0 \/ \E i \in 1..6 : bs[i] # 0)

\* The primitives: a fixed-width read, or (String) a u32 length and bytes.
DeserializePrimitive(t, bs) ==
    LET Fixed(width) == IF Len(bs) < width THEN DErr
                        ELSE DOk([k |-> t.k, le |-> Take(bs, width)], Drop(bs, width))
        Small(width, signed) ==
            IF Len(bs) < width THEN DErr
            ELSE LET n == LeNat(Take(bs, width))
                 IN  DOk([k |-> t.k, v |-> IF signed THEN Signed(n, width) ELSE n],
                         Drop(bs, width))
    IN  CASE t.k = "Empty" -> DOk([k |-> "Empty"], bs)
          [] t.k = "Pubkey" ->
                IF Len(bs) < PubkeyLen THEN DErr
                ELSE DOk([k |-> "Pubkey", text_of |-> Take(bs, PubkeyLen)], Drop(bs, PubkeyLen))
          [] t.k = "String" ->
                LET s == ReadString(bs)
                IN  IF ~s.ok \/ \E i \in 1..Len(s.val) : s.val[i] >= 128 THEN DErr
                    ELSE DOk([k |-> "String", s |-> s.val], s.rest)
          [] t.k = "I8" -> Small(1, TRUE)
          [] t.k = "U8" -> Small(1, FALSE)
          [] t.k = "I16" -> Small(2, TRUE)
          [] t.k = "U16" -> Small(2, FALSE)
          [] t.k \in {"I32", "U32"} -> Fixed(4)
          [] t.k \in {"I64", "U64"} -> Fixed(8)
          [] t.k \in {"I128", "U128"} -> Fixed(16)
          [] t.k = "F32" ->
                IF Len(bs) < 4 \/ IsNaN(Take(bs, 4)) THEN DErr ELSE Fixed(4)
          [] t.k = "F64" ->
                IF Len(bs) < 8 \/ IsNaN(Take(bs, 8)) THEN DErr ELSE Fixed(8)
          [] t.k = "Bool" ->
                LET b == ReadBool(bs)
                IN  IF b.ok THEN DOk([k |-> "Bool", v |-> b.val], b.rest) ELSE DErr

RECURSIVE SchemaNode_deserialize_bytes(_, _, _)
RECURSIVE SchemaType_deserialize_bytes(_, _, _)
RECURSIVE DeserializeEach(_, _, _)
RECURSIVE DeserializeRepeat(_, _, _, _)
RECURSIVE DeserializeFields(_, _, _)

\* Mutant: a hidden node is skipped without decoding it, so its bytes stay
\* in the buffer.
SchemaNode_deserialize_bytes_SkipUndecoded(nd, bs, show) ==
    IF nd.is_hidden /\ ~show THEN DOk(None, bs)
    ELSE LET v == SchemaType_deserialize_bytes(nd.typ, bs, show)
         IN  IF v.st # "Ok" THEN v ELSE DOk(ValueNode(nd.name, v.val), v.rest)

\* SchemaNode::deserialize_bytes: the value is decoded (and its bytes are
\* consumed) before the node is dropped for being hidden.
SchemaNode_deserialize_bytes(nd, bs, show) ==
    LET v == SchemaType_deserialize_bytes(nd.typ, bs, show)
    IN  IF v.st # "Ok" THEN v
        ELSE IF nd.is_hidden /\ ~show THEN DOk(None, v.rest)
        ELSE DOk(ValueNode(nd.name, v.val), v.rest)

\* for t in ts { values.push(t.deserialize_bytes(..)?) }
DeserializeEach(ts, bs, show) ==
    IF ts = <<>> THEN DOk(<<>>, bs)
    ELSE LET r == SchemaType_deserialize_bytes(Head(ts), bs, show)
         IN  IF r.st # "Ok" THEN r
             ELSE LET l == DeserializeEach(Tail(ts), r.rest, show)
                  IN  IF l.st # "Ok" THEN l ELSE DOk(<<r.val>> \o l.val, l.rest)

\* for _ in 0..n { values.push(t.deserialize_bytes(..)?) }
DeserializeRepeat(t, n, bs, show) ==
    IF n = 0 THEN DOk(<<>>, bs)
    ELSE LET r == SchemaType_deserialize_bytes(t, bs, show)
         IN  IF r.st # "Ok" THEN r
             ELSE LET l == DeserializeRepeat(t, n - 1, r.rest, show)
                  IN  IF l.st # "Ok" THEN l ELSE DOk(<<r.val>> \o l.val, l.rest)

\* The Struct loop: a field that decodes to None is not pushed.
DeserializeFields(nodes, bs, show) ==
    IF nodes = <<>> THEN DOk(<<>>, bs)
    ELSE LET r == SchemaNode_deserialize_bytes(Head(nodes), bs, show)
         IN  IF r.st # "Ok" THEN r
             ELSE LET l == DeserializeFields(Tail(nodes), r.rest, show)
                  IN  IF l.st # "Ok" THEN l
                      ELSE DOk((IF r.val = None THEN <<>> ELSE <<r.val>>) \o l.val, l.rest)

\* The Option arm: one flag byte; the inner value follows only a flag of 1.
\* Variant: an absent Option leaves its flag byte in the buffer.
DeserializeOption_KeepFlag(t, bs, show) ==
    IF bs = <<>> THEN DErr
    ELSE IF Head(bs) = 1
         THEN LET r == SchemaType_deserialize_bytes(t.inner, Tail(bs), show)
              IN  IF r.st # "Ok" THEN r
                  ELSE DOk([k |-> "Option", some |-> TRUE, inner |-> r.val], r.rest)
         ELSE DOk([k |-> "Option", some |-> FALSE, inner |-> None], bs)

\* Variant: a flag byte above 1 is refused.
DeserializeOption_Strict(t, bs, show) ==
    IF bs = <<>> \/ Head(bs) > 1 THEN DErr
    ELSE IF Head(bs) = 1
         THEN LET r == SchemaType_deserialize_bytes(t.inner, Tail(bs), show)
              IN  IF r.st # "Ok" THEN r
                  ELSE DOk([k |-> "Option", some |-> TRUE, inner |-> r.val], r.rest)
         ELSE DOk([k |-> "Option", some |-> FALSE, inner |-> None], Tail(bs))

DeserializeOption(t, bs, show) ==
    IF bs = <<>> THEN DErr
    ELSE IF Head(bs) = 1
         THEN LET r == SchemaType_deserialize_bytes(t.inner, Tail(bs), show)
              IN  IF r.st # "Ok" THEN r
                  ELSE DOk([k |-> "Option", some |-> TRUE, inner |-> r.val], r.rest)
         ELSE DOk([k |-> "Option", some |-> FALSE, inner |-> None], Tail(bs))

\* Mutant: the raw bytes are copied but the cursor is not advanced.
TakeBytes_KeepCursor(size, bs) ==
    IF Len(bs) < size THEN DErr
    ELSE DOk([k |-> "Bytes", buf |-> Take(bs, size)], bs)

\* The raw-bytes path of Vec and SmallVec: the next size bytes, verbatim.
TakeBytes(size, bs) ==
    IF Len(bs) < size THEN DErr
    ELSE DOk([k |-> "Bytes", buf |-> Take(bs, size)], Drop(bs, size))

\* The Vec and SmallVec arms: a count of prefix bytes, then the raw-bytes
\* path for U8 elements and one decode per element otherwise.
DeserializeCounted(prefix, elem, bs, show) ==
    LET size == ReadUint(bs, prefix)
    IN  IF ~size.ok THEN DErr
        ELSE IF elem = Prim("U8") THEN TakeBytes(size.val, size.rest)
        ELSE LET l == DeserializeRepeat(elem, size.val, size.rest, show)
             IN  IF l.st # "Ok" THEN l ELSE DOk([k |-> "Vec", items |-> l.val], l.rest)

PrefixLen(len_ty) == IF len_ty = "U8" THEN 1 ELSE 2

\* The Enum arm: one selector byte indexes the variant list (an index out
\* of range panics); a variant that decodes to None is an error.
DeserializeEnum(t, bs, show) ==
    IF bs = <<>> THEN DErr
    ELSE IF Head(bs) >= Len(t.nodes) THEN DPanic
    ELSE LET r == SchemaNode_deserialize_bytes(t.nodes[Head(bs) + 1], Tail(bs), show)
         IN  IF r.st # "Ok" THEN r
             ELSE IF r.val = None THEN DErr
             ELSE DOk([k |-> "Enum", variant |-> r.val], r.rest)

\* SchemaType::deserialize_bytes.  The match has no arm for RemainingBytes.
SchemaType_deserialize_bytes(t, bs, show) ==
    CASE t.k \in PrimitiveKinds -> DeserializePrimitive(t, bs)
      [] t.k = "Option" -> DeserializeOption(t, bs, show)
      [] t.k = "Array" ->
            LET l == DeserializeRepeat(t.inner, t.len, bs, show)
            IN  IF l.st # "Ok" THEN l ELSE DOk([k |-> "Array", items |-> l.val], l.rest)
      [] t.k = "Tuple" ->
            LET l == DeserializeEach(t.items, bs, show)
            IN  IF l.st # "Ok" THEN l ELSE DOk([k |-> "Tuple", items |-> l.val], l.rest)
      [] t.k = "Vec" -> DeserializeCounted(4, t.inner, bs, show)
      [] t.k = "Struct" ->
            LET l == DeserializeFields(t.nodes, bs, show)
            IN  IF l.st # "Ok" THEN l ELSE DOk([k |-> "Struct", fields |-> l.val], l.rest)
      [] t.k = "Enum" -> DeserializeEnum(t, bs, show)
      [] t.k = "SmallVec" ->
            DeserializeCounted(PrefixLen(t.len_ty), t.inner, bs, show)
      [] t.k = "RemainingBytes" -> DErr

(***************************************************************************)
(* The Program Index (on_chain_idl.rs).  An outcome of a decode operation  *)
(* is [st, cause, val].                                                    *)
(***************************************************************************)
InstructionDecoder(accounts, args) ==
    [accounts |-> accounts, instruction_args_parser |-> args]

OnChainIdl(name, alen, ilen, accounts, instruction_params) ==
    [program_name |-> name, account_disc_len |-> alen, instruction_disc_len |-> ilen,
     accounts |-> accounts, instruction_params |-> instruction_params]

POk(v) == [st |-> "Ok", cause |-> "", val |-> v]
PErr(cause) == [st |-> "Err", cause |-> cause, val |-> None]
PPanic == [st |-> "Panic", cause |-> "", val |-> None]

Min(a, b) == IF a < b THEN a ELSE b

\* Mutant: the bytes past the discriminator width are copied too.
Discriminator_NoPadding(disc_len, bs) ==
    [i \in 1..8 |-> IF i <= Len(bs) THEN bs[i] ELSE 0]

\* get_account_discriminator and get_instruction_discriminator: the first
\* min(disc_len, 8) bytes, the rest of the 8 bytes zero, as a u64.
Discriminator(disc_len, bs) ==
    LET slice_len == Min(disc_len, 8)
    IN  [i \in 1..8 |-> IF i <= slice_len THEN bs[i] ELSE 0]

\* .iter().find(|(disc, _)| *disc == discriminant): the first match.
Find(entries, discriminant) ==
    LET hits == {i \in 1..Len(entries) : entries[i][1] = discriminant}
    IN  IF hits = {} THEN None
        ELSE entries[CHOOSE i \in hits : \A j \in hits : i <= j][2]

\* OnChainIdl::get_parsed_account.
get_parsed_account(self, account_data, show) ==
    IF Len(account_data) < self.account_disc_len
    THEN PErr("Account data is too short")
    ELSE LET discriminant == Discriminator(self.account_disc_len, account_data)
             account_schema == Find(self.accounts, discriminant)
             v == SchemaNode_deserialize_bytes(
                      account_schema, Drop(account_data, self.account_disc_len), show)
         IN  IF account_schema = None THEN PErr("Account discriminant not found")
             ELSE IF v.st = "Panic" THEN PPanic
             ELSE IF v.st = "Err" THEN PErr("decode")
             ELSE IF v.val = None THEN PErr("Account type shouldn't be hidden")
             ELSE POk([name |-> account_schema.name, schema |-> account_schema.typ,
                       value |-> v.val.value])

\* The decimal text of a number, as format!("{}", n) writes it.
RECURSIVE Decimal(_)
Decimal(n) ==
    IF n < 10 THEN <<48 + n>> ELSE Decimal(n \div 10) \o <<48 + (n % 10)>>

\* format!("Account {}", i + 1)
AccountPlaceholder(i) == <<65, 99, 99, 111, 117, 110, 116, 32>> \o Decimal(i + 1)

\* Mutant: the name list stops at the declared names.
AccountNames_DeclaredOnly(declared, keys) ==
    [i \in 1..Min(Len(declared), Len(keys)) |-> declared[i]]

\* The loop over account_keys.iter().enumerate(): the declared name at
\* each position, else the placeholder.
AccountNames(declared, keys) ==
    [i \in 1..Len(keys) |->
        IF i <= Len(declared) THEN declared[i] ELSE AccountPlaceholder(i - 1)]

\* accounts_map: each name to the address last inserted under it.
AccountsMap(names, keys) ==
    [n \in {names[i] : i \in 1..Len(names)} |->
        keys[CHOOSE i \in 1..Len(names) :
                names[i] = n /\ \A j \in 1..Len(names) : names[j] = n => j <= i]]

\* OnChainIdl::get_parsed_instruction.
get_parsed_instruction(self, instruction_data, keys, show) ==
    IF Len(instruction_data) < self.instruction_disc_len
    THEN PErr("Instruction data is too short")
    ELSE LET discriminant == Discriminator(self.instruction_disc_len, instruction_data)
             instruction_decoder == Find(self.instruction_params, discriminant)
             account_names == AccountNames(instruction_decoder.accounts, keys)
             args_schema == instruction_decoder.instruction_args_parser
             args == SchemaNode_deserialize_bytes(
                         args_schema, Drop(instruction_data, self.instruction_disc_len), show)
         IN  IF instruction_decoder = None THEN PErr("Instruction discriminant not found")
             ELSE IF args.st = "Panic" THEN PPanic
             ELSE IF args.st = "Err" THEN PErr("decode")
             ELSE IF args.val = None THEN PErr("is_hidden shouldn't be true in instructions")
             ELSE POk([name |-> args_schema.name, schema |-> args_schema.typ,
                       accounts |-> account_names,
                       accounts_map |-> AccountsMap(account_names, keys),
                       value |-> args.val.value])

(***************************************************************************)
(* Names and byte values of the explored inputs.  The byte values keep a   *)
(* four byte count below 2^31.                                             *)
(***************************************************************************)
NameA == <<97>>
NameB == <<98>>
NameC == <<99>>
FieldNames == <<NameA, NameB, NameC, <<100>>, <<101>>>>
ByteVals == {0, 1, 2, 127}
Bufs(n) == SeqsUpTo(ByteVals, n)

(***************************************************************************)
(* Schema Binary Codec: the round trip of the test                         *)
(* identical_after_serialization, over a bounded set of schemas.           *)
(***************************************************************************)
Leaves == {Prim(k) : k \in PrimitiveKinds} \cup {RemainingBytes}
SmallLeaves == {Prim("Empty"), Prim("U8"), Prim("Pubkey")}
CodecNodes(S) == {SchemaNode(n, t, h) : n \in {<<>>, NameA}, t \in S, h \in BOOLEAN}
CodecTypes1 ==
    {OptionT(t) : t \in Leaves} \cup {VecT(t) : t \in Leaves}
    \cup {ArrayT(n, t) : n \in 0..MaxArrayLen, t \in SmallLeaves}
    \cup {SmallVecT(l, t) : l \in SmallVecLen, t \in SmallLeaves}
    \cup {TupleT(ts) : ts \in SeqsUpTo(SmallLeaves, MaxFields)}
    \cup {StructT(ns) : ns \in SeqsUpTo(CodecNodes(SmallLeaves), MaxFields)}
    \cup {EnumT(ns) : ns \in SeqsUpTo(CodecNodes(SmallLeaves), MaxFields)}
CodecInner ==
    {OptionT(Prim("U32")), VecT(RemainingBytes), ArrayT(2, Prim("Bool")),
     SmallVecT("U16", Prim("U8")), TupleT(<<Prim("I8"), Prim("String")>>),
     StructT(<<SchemaNode(NameA, Prim("U64"), TRUE)>>),
     EnumT(<<SchemaNode(NameA, Prim("Empty"), FALSE), SchemaNode(NameB, Prim("F64"), FALSE)>>)}
CodecTypes2 ==
    {OptionT(t) : t \in CodecInner} \cup {VecT(t) : t \in CodecInner}
    \cup {ArrayT(1, t) : t \in CodecInner}
    \cup {SmallVecT("U8", t) : t \in CodecInner}
    \cup {TupleT(<<t, Prim("U8")>>) : t \in CodecInner}
    \cup {StructT(<<SchemaNode(NameA, t, FALSE), SchemaNode(NameB, Prim("U16"), FALSE)>>) :
            t \in CodecInner}
    \cup {EnumT(<<SchemaNode(NameB, t, FALSE)>>) : t \in CodecInner}
CodecTypes == Leaves \cup CodecTypes1 \cup CodecTypes2


InitCodec ==
    /\ mode = "codec"
    /\ schema \in {NewNode(NameA, t) : t \in CodecTypes}
    /\ serialized = None
    /\ deserialized = None
    /\ IdleDecode /\ IdleIndex /\ IdleCompile /\ IdleFunction /\ show_hidden = FALSE

\* let serialized = schema.try_to_vec()
TryToVec ==
    /\ mode = "codec"
    /\ serialized = None
    /\ serialized' = SchemaNode_serialize(schema)
    /\ UNCHANGED <<mode, schema, deserialized, decodeVars, indexVars, compileVars, functionVars, show_hidden>>

\* let deserialized = SchemaNode::deserialize(&mut serialized.as_slice())
Deserialize ==
    /\ mode = "codec"
    /\ serialized # None /\ serialized.ok
    /\ deserialized = None
    /\ deserialized' = SchemaNode_deserialize_reader(serialized.bytes)
    /\ UNCHANGED <<mode, schema, serialized, decodeVars, indexVars, compileVars, functionVars, show_hidden>>

NextCodec == TryToVec \/ Deserialize
SpecCodec == InitCodec /\ [][NextCodec]_vars

(***************************************************************************)
(* Byte decoder: one deserialize_bytes call on a SchemaNode, as in the     *)
(* tests of schema/mod.rs and schema/bytes_deserialize.rs.                 *)
(***************************************************************************)
U8 == Prim("U8")
U16 == Prim("U16")
Empty == Prim("Empty")

\* The raw-bytes shapes.
RawTypes == {VecT(U8), SmallVecT("U8", U8), SmallVecT("U16", U8)}

\* Structs and enums of up to MaxDecFields nodes, the i-th named
\* FieldNames[i], of every leaf type and hidden flag.
DecLeaves == {Empty, U8, U16}
FieldLists ==
    UNION {{[i \in 1..m |-> SchemaNode(FieldNames[i], c[i][1], c[i][2])] :
                c \in [1..m -> DecLeaves \X BOOLEAN]} : m \in 0..MaxDecFields}
FlatTypes == {StructT(l) : l \in FieldLists} \cup {EnumT(l) : l \in FieldLists}

HiddenPair == <<SchemaNode(NameA, U8, TRUE), SchemaNode(NameB, U8, FALSE)>>
NestedTypes ==
    {Prim("Bool"), Prim("I8"), Prim("I16"), Prim("String"), Prim("Pubkey"),
     OptionT(U8), OptionT(U16), OptionT(StructT(HiddenPair)), OptionT(OptionT(U8)),
     VecT(U16), VecT(StructT(HiddenPair)), SmallVecT("U8", U16),
     SmallVecT("U8", StructT(HiddenPair)), SmallVecT("U16", Prim("Bool")),
     ArrayT(2, U8), ArrayT(2, StructT(HiddenPair)), ArrayT(0, U16),
     TupleT(<<U8, U16>>), TupleT(<<OptionT(U8), U8>>),
     StructT(<<SchemaNode(NameA, StructT(HiddenPair), FALSE), SchemaNode(NameB, U8, FALSE)>>),
     StructT(<<SchemaNode(NameA, StructT(HiddenPair), TRUE), SchemaNode(NameB, U8, FALSE)>>),
     StructT(<<SchemaNode(NameA, OptionT(U8), TRUE), SchemaNode(NameB, U8, FALSE)>>),
     StructT(<<SchemaNode(NameA, OptionT(U8), FALSE), SchemaNode(NameB, U8, FALSE)>>),
     StructT(<<SchemaNode(NameA, EnumT(HiddenPair), FALSE), SchemaNode(NameB, U8, FALSE)>>),
     StructT(<<SchemaNode(NameA, VecT(U8), TRUE), SchemaNode(NameB, U8, FALSE)>>),
     EnumT(<<SchemaNode(NameA, StructT(HiddenPair), FALSE), SchemaNode(NameB, Empty, FALSE)>>),
     EnumT(<<SchemaNode(NameA, EnumT(HiddenPair), FALSE)>>)}

TopName == <<116>>

\* The shapes that hold RemainingBytes.
RestTypes ==
    {RemainingBytes,
     StructT(<<SchemaNode(NameA, U8, FALSE), SchemaNode(NameB, RemainingBytes, FALSE)>>)}

\* Top-level nodes that are hidden themselves.
HiddenTops == {SchemaNode(TopName, t, TRUE) : t \in {U8, U16, ArrayT(2, U8)}}

DecodeInputs ==
    ({NewNode(TopName, t) : t \in RawTypes} \X Bufs(MaxRawBuf) \X {FALSE})
    \cup ({NewNode(TopName, t) : t \in RestTypes} \X Bufs(MaxBuf) \X {FALSE})
    \cup ({NewNode(TopName, t) : t \in FlatTypes \cup NestedTypes}
            \X Bufs(MaxBuf) \X BOOLEAN)
    \cup (HiddenTops \X Bufs(MaxBuf) \X BOOLEAN)

InitDecode ==
    /\ mode = "decode"
    /\ \E in \in DecodeInputs :
          node = in[1] /\ bytes = in[2] /\ show_hidden = in[3]
    /\ value = None
    /\ IdleCodec /\ IdleIndex /\ IdleCompile /\ IdleFunction

\* let v = node.deserialize_bytes(&mut buf, show_hidden)
DeserializeBytes ==
    /\ mode = "decode"
    /\ value = None
    /\ value' = SchemaNode_deserialize_bytes(node, bytes, show_hidden)
    /\ UNCHANGED <<mode, node, bytes, show_hidden, codecVars, indexVars, compileVars, functionVars>>

NextDecode == DeserializeBytes
SpecDecode == InitDecode /\ [][NextDecode]_vars

(***************************************************************************)
(* Program Index: one get_parsed_account or get_parsed_instruction call on *)
(* an index whose widths include the ones the compiler can produce from a  *)
(* byte-array discriminator (0 and 9).                                     *)
(***************************************************************************)
Key(bs) == [i \in 1..8 |-> IF i <= Len(bs) THEN bs[i] ELSE 0]
K1 == Key(<<1>>)
K12 == Key(<<1, 2>>)
K8 == <<1, 2, 0, 1, 2, 0, 1, 127>>
K0 == Key(<<>>)

AccountA == NewNode(NameA, StructT(<<SchemaNode(NameA, U8, FALSE), SchemaNode(NameB, U16, TRUE)>>))
AccountB == NewNode(NameB, EnumT(<<SchemaNode(NameA, Empty, FALSE), SchemaNode(NameB, U8, TRUE)>>))
AccountC == SchemaNode(NameC, U8, TRUE)
AccountD == NewNode(<<100>>, Empty)

IndexEntries ==
    {<< <<K1, AccountA>>, <<K12, AccountC>>, <<K8, AccountB>> >>,
     << <<K12, AccountA>>, <<K1, AccountB>>, <<K1, AccountA>>, <<K8, AccountD>> >>,
     << <<K0, AccountD>>, <<K8, AccountA>> >>,
     << >>}

RoleNames == <<<<120>>, <<121>>, <<120>>>>
Decoders(entries) ==
    [i \in 1..Len(entries) |->
        <<entries[i][1], InstructionDecoder(Take(RoleNames, i - 1), entries[i][2])>>]

IndexWidths == {<<0, 1>>, <<1, 2>>, <<2, 8>>, <<8, 9>>, <<9, 0>>}
ProgramName == <<112>>
Indexes ==
    {OnChainIdl(ProgramName, w[1], w[2], e, Decoders(e)) : w \in IndexWidths, e \in IndexEntries}

KeyPrefixes == {Take(k, n) : k \in {K1, K12, K8, Key(<<2, 1>>)}, n \in 0..8}
IndexData == {k \o p : k \in KeyPrefixes, p \in Bufs(MaxPayload)}
Addresses == <<<<49>>, <<50>>, <<51>>, <<52>>, <<53>>>>
IndexCalls ==
    ({"account"} \X IndexData \X {<<>>} \X BOOLEAN)
    \cup ({"instruction"} \X IndexData \X {Take(Addresses, n) : n \in 0..MaxKeys} \X BOOLEAN)


InitIndex ==
    /\ mode = "index"
    /\ idl \in Indexes
    /\ \E c \in IndexCalls :
          call = c[1] /\ data = c[2] /\ account_keys = c[3] /\ show_hidden = c[4]
    /\ parsed = None
    /\ history = <<>>
    /\ IdleCodec /\ IdleDecode /\ IdleCompile /\ IdleFunction

GetParsedAccount ==
    /\ mode = "index" /\ call = "account" /\ parsed = None
    /\ parsed' = get_parsed_account(idl, data, show_hidden)
    /\ UNCHANGED <<mode, idl, call, data, account_keys, history, show_hidden, codecVars, decodeVars, compileVars, functionVars>>

GetParsedInstruction ==
    /\ mode = "index" /\ call = "instruction" /\ parsed = None
    /\ parsed' = get_parsed_instruction(idl, data, account_keys, show_hidden)
    /\ UNCHANGED <<mode, idl, call, data, account_keys, history, show_hidden, codecVars, decodeVars, compileVars, functionVars>>

NextIndex == GetParsedAccount \/ GetParsedInstruction
SpecIndex == InitIndex /\ [][NextIndex]_vars

(***************************************************************************)
(* Program Index, shared: up to MaxCalls get_parsed_account and            *)
(* get_parsed_instruction calls, one after the other, on the same index.   *)
(* Both take &self.                                                        *)
(***************************************************************************)
SharedIndexes ==
    {OnChainIdl(ProgramName, 1, 2, e, Decoders(e)) :
         e \in {<< <<K1, AccountA>>, <<K12, AccountC>>, <<K8, AccountB>> >>,
                << <<K12, AccountA>>, <<K1, AccountB>> >>}}
SharedCalls ==
    ({"account"} \X {<<>>, <<1, 5, 0, 0>>, <<9, 9, 9>>} \X {<<>>} \X BOOLEAN)
    \cup ({"instruction"} \X {<<1>>, <<1, 2, 7, 0, 0>>} \X {<<>>, Take(Addresses, 2)} \X {TRUE})

InitShared ==
    /\ mode = "shared"
    /\ idl \in SharedIndexes
    /\ call = "" /\ data = <<>> /\ account_keys = <<>> /\ show_hidden = FALSE
    /\ parsed = None
    /\ history = <<>>
    /\ IdleCodec /\ IdleDecode /\ IdleCompile /\ IdleFunction

\* The call c is answered with outcome, by the index as the call found it.
Answer(c, outcome) ==
    /\ mode = "shared"
    /\ Len(history) < MaxCalls
    /\ call' = c[1] /\ data' = c[2] /\ account_keys' = c[3] /\ show_hidden' = c[4]
    /\ parsed' = outcome
    /\ history' = Append(history, [input |-> c, idl |-> idl, parsed |-> outcome])
    /\ UNCHANGED <<mode, codecVars, decodeVars, compileVars, functionVars>>

\* Variant: a call that fails drops the first account entry of the index.
NextGetParsedAccount_Evicting ==
    \E c \in SharedCalls :
        /\ c[1] = "account"
        /\ Answer(c, get_parsed_account(idl, c[2], c[4]))
        /\ idl' = IF get_parsed_account(idl, c[2], c[4]).st = "Ok" THEN idl
                  ELSE [idl EXCEPT !.accounts = Tail(@)]

\* idl.get_parsed_account(account_data, show_hidden), by a caller of the
\* shared index.
NextGetParsedAccount ==
    \E c \in SharedCalls :
        /\ c[1] = "account"
        /\ Answer(c, get_parsed_account(idl, c[2], c[4]))
        /\ UNCHANGED idl

\* idl.get_parsed_instruction(instruction_data, account_keys, show_hidden)
NextGetParsedInstruction ==
    \E c \in SharedCalls :
        /\ c[1] = "instruction"
        /\ Answer(c, get_parsed_instruction(idl, c[2], c[3], c[4]))
        /\ UNCHANGED idl

NextShared == NextGetParsedAccount \/ NextGetParsedInstruction
SpecShared == InitShared /\ [][NextShared]_vars

(***************************************************************************)
(* Text (parse_idl.rs).  A string is the sequence of its bytes; the names  *)
(* the compiler reads are ASCII.  Str gives the bytes of a literal.        *)
(***************************************************************************)
AsciiFrom32 == " !"
AsciiFrom35 == "#$%&'()*+,-./0123456789:;<=>?@ABCDEFGHIJKLMNOPQRSTUVWXYZ["
AsciiFrom93 == "]^_"
AsciiFrom97 == "abcdefghijklmnopqrstuvwxyz{|}~"
IndexIn(text, c) ==
    LET hits == {i \in 1..Len(text) : SubSeq(text, i, i) = c}
    IN  IF hits = {} THEN 0 ELSE CHOOSE i \in hits : TRUE
CodeOf(c) ==
    IF IndexIn(AsciiFrom32, c) > 0 THEN 31 + IndexIn(AsciiFrom32, c)
    ELSE IF IndexIn(AsciiFrom35, c) > 0 THEN 34 + IndexIn(AsciiFrom35, c)
    ELSE IF IndexIn(AsciiFrom93, c) > 0 THEN 92 + IndexIn(AsciiFrom93, c)
    ELSE 96 + IndexIn(AsciiFrom97, c)
Str(s) == [i \in 1..Len(s) |-> CodeOf(SubSeq(s, i, i))]

\* str::strip_prefix and str::strip_suffix succeed on these conditions.
StartsWith(s, p) == Len(s) >= Len(p) /\ Take(s, Len(p)) = p
EndsWith(s, p) == Len(s) >= Len(p) /\ Drop(s, Len(s) - Len(p)) = p

\* str::split on a one-byte separator: at least one part, empty parts kept.
RECURSIVE Split(_, _)
Split(s, sep) ==
    LET hits == {i \in 1..Len(s) : s[i] = sep}
    IN  IF hits = {} THEN <<s>>
        ELSE LET i == CHOOSE i \in hits : \A j \in hits : i <= j
             IN  <<Take(s, i - 1)>> \o Split(Drop(s, i), sep)

\* str::trim: ASCII white space off both ends.
IsWhitespace(c) == c \in {9, 10, 11, 12, 13, 32}
RECURSIVE TrimStart(_)
TrimStart(s) == IF s # <<>> /\ IsWhitespace(Head(s)) THEN TrimStart(Tail(s)) ELSE s
RECURSIVE TrimEnd(_)
TrimEnd(s) ==
    IF s # <<>> /\ IsWhitespace(s[Len(s)]) THEN TrimEnd(Take(s, Len(s) - 1)) ELSE s
Trim(s) == TrimEnd(TrimStart(s))

IsUppercase(c) == c \in 65..90
IsLowercase(c) == c \in 97..122
IsAsciiDigit(c) == c \in 48..57
ToLowercase(c) == IF IsUppercase(c) THEN c + 32 ELSE c
EqIgnoreAsciiCase(a, b) ==
    Len(a) = Len(b) /\ \A i \in 1..Len(a) : ToLowercase(a[i]) = ToLowercase(b[i])

\* str::parse::<usize>: an optional '+', then one decimal digit or more.
\* (The lengths drawn here have few digits; usize overflow is out of reach.)
RECURSIVE DecimalValue(_)
DecimalValue(ds) ==
    IF ds = <<>> THEN 0 ELSE 10 * DecimalValue(Take(ds, Len(ds) - 1)) + (ds[Len(ds)] - 48)
ParseUsize(s) ==
    LET ds == IF s # <<>> /\ Head(s) = 43 THEN Tail(s) ELSE s
    IN  IF ds = <<>> \/ \E i \in 1..Len(ds) : ~IsAsciiDigit(ds[i])
        THEN PErr("ParseIntError")
        ELSE POk(DecimalValue(ds))

\* camel_to_snake_case.
RECURSIVE camel_to_snake_case_from(_, _, _)
\* Variant: only a following lowercase letter calls for an underscore.
RECURSIVE camel_to_snake_case_from_LowercaseOnly(_, _, _)
camel_to_snake_case_from_LowercaseOnly(s, i, result) ==
    IF i > Len(s) THEN result
    ELSE LET c == s[i]
             underscore == result # <<>> /\ i < Len(s) /\ IsLowercase(s[i + 1])
         IN  IF IsUppercase(c)
             THEN camel_to_snake_case_from_LowercaseOnly(s, i + 1,
                      (IF underscore THEN Append(result, 95) ELSE result)
                          \o <<ToLowercase(c)>>)
             ELSE camel_to_snake_case_from_LowercaseOnly(s, i + 1, Append(result, c))
camel_to_snake_case_from(s, i, result) ==
    IF i > Len(s) THEN result
    ELSE LET c == s[i]
             underscore ==
                 /\ result # <<>>
                 /\ i < Len(s)
                 /\ (IsLowercase(s[i + 1]) \/ IsAsciiDigit(s[i + 1]))
         IN  IF IsUppercase(c)
             THEN camel_to_snake_case_from(s, i + 1,
                      (IF underscore THEN Append(result, 95) ELSE result)
                          \o <<ToLowercase(c)>>)
             ELSE camel_to_snake_case_from(s, i + 1, Append(result, c))
camel_to_snake_case(s) == camel_to_snake_case_from(s, 1, <<>>)

\* solana_program::hash::hash, abstracted: a fixed digest of 32 bytes that
\* depends on every byte of the seed and on its position.  (SHA-256 itself
\* is outside this repository.)
RECURSIVE Mix(_, _)
Mix(seed, i) ==
    IF seed = <<>> THEN i
    ELSE (Mix(Take(seed, Len(seed) - 1), i) * 31 + seed[Len(seed)] + i) % 256
hash(seed) == [i \in 1..32 |-> Mix(seed, i)]

(***************************************************************************)
(* JSON values (serde_json::Value).  An object is a function from its keys *)
(* to values (serde_json::Map, a BTreeMap: one value per key, iterated in  *)
(* key order).  Absent is the None that Map::get returns.                  *)
(***************************************************************************)
Absent == [j |-> "absent"]
JInvalid == [j |-> "invalid"]
JNull == [j |-> "null"]
JNum(n) == [j |-> "num", n |-> n]
JStr(s) == [j |-> "str", s |-> s]
JArr(items) == [j |-> "arr", items |-> items]
JObj(m) == [j |-> "obj", m |-> m]

Get(m, key) == IF key \in DOMAIN m THEN m[key] ELSE Absent

LexLess(a, b) ==
    \E i \in 1..(Len(a) + 1) :
        /\ \A k \in 1..(i - 1) : k <= Len(b) /\ a[k] = b[k]
        /\ \/ i = Len(a) + 1 /\ Len(b) >= i
           \/ i <= Len(a) /\ i <= Len(b) /\ a[i] < b[i]

\* Map::iter().next(): the entry of the least key.
FirstKey(m) ==
    CHOOSE k \in DOMAIN m : \A o \in DOMAIN m : o = k \/ LexLess(Str(k), Str(o))

\* HashMap: a function from keys to values; insert replaces.
EmptyMap == [x \in {} |-> None]
Insert(map, k, v) == [x \in DOMAIN map \cup {k} |-> IF x = k THEN v ELSE map[x]]

\* The orders in which a HashMap of these keys can be iterated.
Orders(S) ==
    {o \in [1..Cardinality(S) -> S] : \A x \in S : \E i \in 1..Cardinality(S) : o[i] = x}

(***************************************************************************)
(* parse_raw_schema_type: a bare type name.  An outcome is [st, cause,     *)
(* val] as for the Program Index.                                          *)
(***************************************************************************)
RawSchemaTypes ==
    <<<<Str("pubkey"), Prim("Pubkey")>>, <<Str("publicKey"), Prim("Pubkey")>>,
      <<Str("string"), Prim("String")>>,
      <<Str("i8"), Prim("I8")>>, <<Str("u8"), Prim("U8")>>,
      <<Str("i16"), Prim("I16")>>, <<Str("u16"), Prim("U16")>>,
      <<Str("i32"), Prim("I32")>>, <<Str("u32"), Prim("U32")>>,
      <<Str("i64"), Prim("I64")>>, <<Str("u64"), Prim("U64")>>,
      <<Str("i128"), Prim("I128")>>, <<Str("u128"), Prim("U128")>>,
      <<Str("f32"), Prim("F32")>>, <<Str("f64"), Prim("F64")>>,
      <<Str("bool"), Prim("Bool")>>,
      <<Str("bytes"), VecT(Prim("U8"))>>,
      <<Str("bytes_remaining"), RemainingBytes>>, <<Str("rest"), RemainingBytes>>>>

Lookup(table, name) ==
    LET hits == {i \in 1..Len(table) : table[i][1] = name}
    IN  IF hits = {} THEN None ELSE table[CHOOSE i \in hits : TRUE][2]

RECURSIVE parse_raw_schema_type(_)
\* Mutant: the two parts of the bracket shorthand are not trimmed.
parse_raw_schema_type_Untrimmed(name) ==
    IF Len(name) >= 2 /\ Head(name) = 91 /\ name[Len(name)] = 93
    THEN LET inner == SubSeq(name, 2, Len(name) - 1)
             parts == Split(inner, 59)
             len == ParseUsize(parts[2])
             elem == parse_raw_schema_type(parts[1])
         IN  IF Len(parts) < 2 THEN PErr("Array missing length")
             ELSE IF Len(parts) > 2 THEN PErr("Array syntax has extra parts")
             ELSE IF len.st # "Ok" THEN len
             ELSE IF elem.st # "Ok" THEN elem
             ELSE POk(ArrayT(len.val, elem.val))
    ELSE LET t == Lookup(RawSchemaTypes, name)
         IN  IF t = None THEN PPanic ELSE POk(t)

\* parse_raw_schema_type.
parse_raw_schema_type(name) ==
    IF Len(name) >= 2 /\ Head(name) = 91 /\ name[Len(name)] = 93
    THEN LET inner == SubSeq(name, 2, Len(name) - 1)
             parts == Split(inner, 59)
             len == ParseUsize(Trim(parts[2]))
             elem == parse_raw_schema_type(Trim(parts[1]))
         IN  IF Len(parts) < 2 THEN PErr("Array missing length")
             ELSE IF Len(parts) > 2 THEN PErr("Array syntax has extra parts")
             ELSE IF len.st # "Ok" THEN len
             ELSE IF elem.st # "Ok" THEN elem
             ELSE POk(ArrayT(len.val, elem.val))
    ELSE LET t == Lookup(RawSchemaTypes, name)
         IN  IF t = None THEN PPanic ELSE POk(t)

(***************************************************************************)
(* IdlParser.  self is the type_map; parsed_cache is handed from call to   *)
(* call, so an outcome is [st, cause, val, cache].  stack is the set of    *)
(* the type names whose parse_type call has not returned: calling          *)
(* parse_type on one of them repeats the call that is already running, on  *)
(* a cache that still lacks the name, without end, which the outcome       *)
(* "StackOverflow" stands for.                                             *)
(***************************************************************************)
WithCache(r, cache) == [st |-> r.st, cause |-> r.cause, val |-> r.val, cache |-> cache]
COk(v, cache) == WithCache(POk(v), cache)
CErr(cause, cache) == WithCache(PErr(cause), cache)
StackOverflow == [st |-> "StackOverflow", cause |-> "", val |-> None]

\* What the code builds from the outcome r of a call followed by ?.
NodeOf(name, r) == IF r.st # "Ok" THEN r ELSE COk(NewNode(name, r.val), r.cache)
TypOf(r) == IF r.st # "Ok" THEN r ELSE COk(r.val.typ, r.cache)
StructOf(r) == IF r.st # "Ok" THEN r ELSE COk(StructT(r.val), r.cache)
EnumOf(r) == IF r.st # "Ok" THEN r ELSE COk(EnumT(r.val), r.cache)
VecOf(r) == IF r.st # "Ok" THEN r ELSE COk(VecT(r.val), r.cache)
OptionOf(r) == IF r.st # "Ok" THEN r ELSE COk(OptionT(r.val), r.cache)
ArrayOf(size, r) == IF r.st # "Ok" THEN r ELSE COk(ArrayT(size, r.val), r.cache)
SmallVecOf(len_ty, r) == IF r.st # "Ok" THEN r ELSE COk(SmallVecT(len_ty, r.val), r.cache)

\* vec.push(r?): the list so far with the value of r.
Push(list, r) == IF r.st # "Ok" THEN r ELSE COk(Append(list.val, r.val), r.cache)

\* parsed_cache.insert(type_name, schema.clone()); Ok(schema)
Cached(type_name, r) ==
    IF r.st # "Ok" THEN r ELSE COk(r.val, Insert(r.cache, type_name, r.val))

\* The built-in element names of a SmallVec descriptor.
SmallVecElemTypes == SubSeq(RawSchemaTypes, 3, 16)

RECURSIVE parse_type(_, _, _, _)
RECURSIVE parse_variant(_, _, _, _)
RECURSIVE parse_variants(_, _, _, _)
RECURSIVE parse_fields(_, _, _, _, _)
RECURSIVE parse_each_field(_, _, _, _)
RECURSIVE parse_field(_, _, _, _)
RECURSIVE parse_field_inner(_, _, _, _)
RECURSIVE parse_boxed(_, _, _, _, _)
RECURSIVE parse_defined(_, _, _, _)

\* IdlParser::parse_type.
parse_type(self, type_name, cache, stack) ==
    IF type_name \in DOMAIN cache THEN COk(cache[type_name], cache)
    ELSE IF type_name \notin DOMAIN self THEN CErr("Type not found in type map", cache)
    ELSE IF type_name \in stack THEN WithCache(StackOverflow, cache)
    ELSE
    LET typ == Get(self[type_name], "type")
        kind == Get(typ.m, "kind")
        fields == Get(typ.m, "fields")
        variants == Get(typ.m, "variants")
        parsing == stack \cup {type_name}
    IN  Cached(type_name,
            IF typ.j # "obj" THEN CErr("Type is not an object", cache)
            ELSE IF kind.j # "str" THEN CErr("Kind is not a string", cache)
            ELSE IF kind.s = Str("struct") THEN
                IF fields.j # "arr" THEN CErr("Fields is not an array", cache)
                ELSE parse_fields(self, type_name, fields.items, cache, parsing)
            ELSE IF kind.s = Str("enum") THEN
                IF variants.j # "arr" THEN CErr("Variants is not an array", cache)
                ELSE NodeOf(type_name,
                         EnumOf(parse_variants(self, variants.items, COk(<<>>, cache), parsing)))
            ELSE CErr("Unknown type kind", cache))

\* One turn of the loop over the variants of an enum in parse_type.
parse_variant(self, raw_variant, cache, stack) ==
    LET variant_name == Get(raw_variant.m, "name")
        fields == Get(raw_variant.m, "fields")
    IN  IF raw_variant.j # "obj" THEN CErr("Variant is not an object", cache)
        ELSE IF variant_name.j # "str" THEN CErr("Variant name is not a string", cache)
        ELSE IF fields = Absent THEN COk(NewNode(variant_name.s, Prim("Empty")), cache)
        ELSE IF fields.j # "arr" THEN CErr("Fields for variant is not an array", cache)
        ELSE NodeOf(variant_name.s,
                    TypOf(parse_fields(self, variant_name.s, fields.items, cache, stack)))

\* The loop over the variants: nodes is the outcome so far.
parse_variants(self, variants, nodes, stack) ==
    IF nodes.st # "Ok" \/ variants = <<>> THEN nodes
    ELSE parse_variants(self, Tail(variants),
             Push(nodes, parse_variant(self, Head(variants), nodes.cache, stack)), stack)

\* IdlParser::parse_fields.
parse_fields(self, type_name, fields, cache, stack) ==
    NodeOf(type_name, StructOf(parse_each_field(self, fields, COk(<<>>, cache), stack)))

\* The loop of parse_fields: parsed_fields is the outcome so far.
parse_each_field(self, fields, parsed_fields, stack) ==
    IF parsed_fields.st # "Ok" \/ fields = <<>> THEN parsed_fields
    ELSE parse_each_field(self, Tail(fields),
             Push(parsed_fields, parse_field(self, Head(fields), parsed_fields.cache, stack)),
             stack)

\* IdlParser::parse_field.
parse_field(self, raw_field, cache, stack) ==
    LET named == raw_field.j = "obj" /\ "type" \in DOMAIN raw_field.m
        name == Get(raw_field.m, "name")
        field_name == IF named /\ name.j = "str" THEN name.s ELSE <<>>
        field_type == IF named THEN raw_field.m["type"] ELSE raw_field
    IN  NodeOf(field_name, parse_field_inner(self, field_type, cache, stack))

\* The element of a vec or an option in parse_field_inner.
parse_boxed(self, val, cache, stack, not_a_string) ==
    IF val.j = "obj" THEN parse_field_inner(self, val, cache, stack)
    ELSE IF val.j # "str" THEN CErr(not_a_string, cache)
    ELSE WithCache(parse_raw_schema_type(val.s), cache)

\* IdlParser::parse_field_inner.
parse_field_inner(self, field_type, cache, stack) ==
    IF field_type.j = "obj" THEN
        IF DOMAIN field_type.m = {} THEN CErr("Field type object is empty", cache)
        ELSE
        LET key == FirstKey(field_type.m)
            val == field_type.m[key]
            size == IF Len(val.items) >= 2 THEN val.items[2] ELSE Absent
            first == val.items[1]
        IN  IF key = "vec" THEN
                VecOf(parse_boxed(self, val, cache, stack, "Vec type is not a string"))
            ELSE IF key = "option" THEN
                OptionOf(parse_boxed(self, val, cache, stack, "Option type is not a string"))
            ELSE IF key = "array" THEN
                IF val.j # "arr" THEN CErr("Array is not an array", cache)
                ELSE IF size.j # "num" THEN CErr("Array size is not a u64", cache)
                ELSE IF first.j = "obj" THEN parse_field_inner(self, first, cache, stack)
                ELSE IF first.j # "str" THEN CErr("Array type is not a string", cache)
                ELSE ArrayOf(size.n, WithCache(parse_raw_schema_type(first.s), cache))
            ELSE IF key = "defined" THEN
                IF val.j # "str" THEN CErr("Defined type is not a string", cache)
                ELSE parse_defined(self, val.s, cache, stack)
            ELSE CErr("Unknown field type", cache)
    ELSE IF field_type.j # "str" THEN CErr("Field type is not a string", cache)
    ELSE WithCache(parse_raw_schema_type(field_type.s), cache)

\* Mutant: every defined name, a SmallVec descriptor too, is looked up in
\* the table of types.
parse_defined_WholeName(self, inner_type, cache, stack) ==
    TypOf(parse_type(self, inner_type, cache, stack))

\* Mutant: a length type other than u8 is taken as u16.
parse_defined_AnyLen(self, inner_type, cache, stack) ==
    LET descriptor == Len(inner_type) >= 10 /\ StartsWith(inner_type, Str("SmallVec<"))
                          /\ EndsWith(inner_type, Str(">"))
        inner == SubSeq(inner_type, 10, Len(inner_type) - 1)
        parts == [i \in 1..Len(Split(inner, 44)) |-> Trim(Split(inner, 44)[i])]
        len_s == parts[1]
        elem_s == parts[2]
        len_ty == IF len_s = Str("u8") THEN "U8" ELSE "U16"
        builtin == Lookup(SmallVecElemTypes, elem_s)
        plain == ~descriptor
        user_defined ==
            /\ descriptor /\ Len(parts) = 2
            /\ ~EqIgnoreAsciiCase(elem_s, Str("pubkey"))
            /\ ~EqIgnoreAsciiCase(elem_s, Str("publickey"))
            /\ builtin = None
        defined == IF plain \/ user_defined
                   THEN TypOf(parse_type(self, IF plain THEN inner_type ELSE elem_s,
                                         cache, stack))
                   ELSE None
    IN  IF plain THEN defined
        ELSE IF Len(parts) < 2 THEN CErr("SmallVec missing elem type", cache)
        ELSE IF Len(parts) > 2 THEN CErr("SmallVec has more than two generic params", cache)
        ELSE IF EqIgnoreAsciiCase(elem_s, Str("pubkey"))
                    \/ EqIgnoreAsciiCase(elem_s, Str("publickey"))
            THEN COk(SmallVecT(len_ty, Prim("Pubkey")), cache)
        ELSE IF builtin # None THEN COk(SmallVecT(len_ty, builtin), cache)
        ELSE SmallVecOf(len_ty, defined)

\* The "defined" arm of parse_field_inner.
parse_defined(self, inner_type, cache, stack) ==
    LET descriptor == Len(inner_type) >= 10 /\ StartsWith(inner_type, Str("SmallVec<"))
                          /\ EndsWith(inner_type, Str(">"))
        inner == SubSeq(inner_type, 10, Len(inner_type) - 1)
        parts == [i \in 1..Len(Split(inner, 44)) |-> Trim(Split(inner, 44)[i])]
        len_s == parts[1]
        elem_s == parts[2]
        len_ty == IF len_s = Str("u8") THEN "U8" ELSE "U16"
        builtin == Lookup(SmallVecElemTypes, elem_s)
        plain == ~descriptor
        user_defined ==
            /\ descriptor /\ Len(parts) = 2 /\ len_s \in {Str("u8"), Str("u16")}
            /\ ~EqIgnoreAsciiCase(elem_s, Str("pubkey"))
            /\ ~EqIgnoreAsciiCase(elem_s, Str("publickey"))
            /\ builtin = None
        defined == IF plain \/ user_defined
                   THEN TypOf(parse_type(self, IF plain THEN inner_type ELSE elem_s,
                                         cache, stack))
                   ELSE None
    IN  IF plain THEN defined
        ELSE IF Len(parts) < 2 THEN CErr("SmallVec missing elem type", cache)
        ELSE IF Len(parts) > 2 THEN CErr("SmallVec has more than two generic params", cache)
        ELSE IF len_s \notin {Str("u8"), Str("u16")}
            THEN CErr("Unsupported SmallVec len type", cache)
        ELSE IF EqIgnoreAsciiCase(elem_s, Str("pubkey"))
                    \/ EqIgnoreAsciiCase(elem_s, Str("publickey"))
            THEN COk(SmallVecT(len_ty, Prim("Pubkey")), cache)
        ELSE IF builtin # None THEN COk(SmallVecT(len_ty, builtin), cache)
        ELSE SmallVecOf(len_ty, defined)

\* Variant: a type whose resolution does not end is skipped like a failure.
Keep_EndingRecursion(types, type_name, r) ==
    IF r.st = "Panic" THEN r
    ELSE COk(IF r.st = "Ok" THEN Insert(types.val, type_name, r.val) ELSE types.val,
             r.cache)

\* types.insert(type_name, schema) on Ok and continue on Err; a panic or an
\* overflow of the stack ends parse too.
Keep(types, type_name, r) ==
    IF r.st \in {"Panic", "StackOverflow"} THEN r
    ELSE COk(IF r.st = "Ok" THEN Insert(types.val, type_name, r.val) ELSE types.val,
             r.cache)

\* IdlParser::parse, the keys of type_map taken in the order keys; types is
\* the outcome so far.
RECURSIVE parse(_, _, _)
parse(self, keys, types) ==
    IF types.st # "Ok" \/ keys = <<>> THEN types
    ELSE parse(self, Tail(keys),
               Keep(types, Head(keys), parse_type(self, Head(keys), types.cache, {})))

(***************************************************************************)
(* The Borsh form of the Program Index (derived for OnChainIdl and         *)
(* InstructionDecoder): a Vec is a u32 count and its items, a tuple its    *)
(* members in order, a u64 eight bytes.                                    *)
(***************************************************************************)
RECURSIVE ThenAll(_)
ThenAll(ws) == IF ws = <<>> THEN Written(<<>>) ELSE Then(Head(ws), ThenAll(Tail(ws)))
WriteVec(ws) == Then(Written(LeBytes(Len(ws), 4)), ThenAll(ws))

InstructionDecoder_serialize(d) ==
    Then(WriteVec([i \in 1..Len(d.accounts) |-> WriteString(d.accounts[i])]),
         SchemaNode_serialize(d.instruction_args_parser))

OnChainIdl_serialize(p) ==
    ThenAll(<<WriteString(p.program_name),
              Written(<<p.account_disc_len>>),
              Written(<<p.instruction_disc_len>>),
              WriteVec([i \in 1..Len(p.accounts) |->
                  Then(Written(p.accounts[i][1]), SchemaNode_serialize(p.accounts[i][2]))]),
              WriteVec([i \in 1..Len(p.instruction_params) |->
                  Then(Written(p.instruction_params[i][1]),
                       InstructionDecoder_serialize(p.instruction_params[i][2]))])>>)

ReadKey(bs) == IF Len(bs) < 8 THEN ReadErr ELSE ReadOk(Take(bs, 8), Drop(bs, 8))

\* The members of a struct, a tuple or a Vec are read one after the other:
\* r holds the members read so far and the bytes left, x is the next one,
\* read from r.rest.
Member(r, x) == IF r.ok /\ x.ok THEN ReadOk(Append(r.val, x.val), x.rest) ELSE ReadErr

RECURSIVE ReadStrings(_, _)
ReadStrings(r, n) ==
    IF ~r.ok \/ n = 0 THEN r
    ELSE ReadStrings(Member(r, ReadString(r.rest)), n - 1)

\* Vec<String>
ReadStringVec(bs) ==
    LET n == ReadUint(bs, 4)
    IN  IF ~n.ok THEN ReadErr ELSE ReadStrings(ReadOk(<<>>, n.rest), n.val)

InstructionDecoder_accounts(r) == Member(r, ReadStringVec(r.rest))
InstructionDecoder_instruction_args_parser(r) ==
    Member(r, SchemaNode_deserialize_reader(r.rest))
InstructionDecoder_of(r) ==
    IF r.ok THEN ReadOk(InstructionDecoder(r.val[1], r.val[2]), r.rest) ELSE ReadErr

InstructionDecoder_deserialize_reader(bs) ==
    InstructionDecoder_of(
        InstructionDecoder_instruction_args_parser(
            InstructionDecoder_accounts(ReadOk(<<>>, bs))))

\* (u64, SchemaNode)
ReadAccountSchema(r) == Member(r, SchemaNode_deserialize_reader(r.rest))
ReadAccount(bs) == ReadAccountSchema(Member(ReadOk(<<>>, bs), ReadKey(bs)))

RECURSIVE ReadAccounts(_, _)
ReadAccounts(r, n) ==
    IF ~r.ok \/ n = 0 THEN r
    ELSE ReadAccounts(Member(r, ReadAccount(r.rest)), n - 1)

\* (u64, InstructionDecoder)
ReadInstructionDecoder(r) == Member(r, InstructionDecoder_deserialize_reader(r.rest))
ReadInstruction(bs) == ReadInstructionDecoder(Member(ReadOk(<<>>, bs), ReadKey(bs)))

RECURSIVE ReadInstructions(_, _)
ReadInstructions(r, n) ==
    IF ~r.ok \/ n = 0 THEN r
    ELSE ReadInstructions(Member(r, ReadInstruction(r.rest)), n - 1)

\* Vec<(u64, SchemaNode)> and Vec<(u64, InstructionDecoder)>
ReadAccountVec(bs) ==
    LET n == ReadUint(bs, 4)
    IN  IF ~n.ok THEN ReadErr ELSE ReadAccounts(ReadOk(<<>>, n.rest), n.val)

ReadInstructionVec(bs) ==
    LET n == ReadUint(bs, 4)
    IN  IF ~n.ok THEN ReadErr ELSE ReadInstructions(ReadOk(<<>>, n.rest), n.val)

\* The members of OnChainIdl, in the order of their declaration.
OnChainIdl_program_name(r) == Member(r, ReadString(r.rest))
OnChainIdl_account_disc_len(r) == Member(r, ReadUint(r.rest, 1))
OnChainIdl_instruction_disc_len(r) == Member(r, ReadUint(r.rest, 1))
OnChainIdl_accounts(r) == Member(r, ReadAccountVec(r.rest))
OnChainIdl_instruction_params(r) == Member(r, ReadInstructionVec(r.rest))

\* The whole slice must be read.
OnChainIdl_of(r) ==
    IF r.ok /\ r.rest = <<>>
    THEN ReadOk(OnChainIdl(r.val[1], r.val[2], r.val[3], r.val[4], r.val[5]), <<>>)
    ELSE ReadErr

\* OnChainIdl::try_from_slice.
OnChainIdl_try_from_slice(bs) ==
    OnChainIdl_of(
        OnChainIdl_instruction_params(
            OnChainIdl_accounts(
                OnChainIdl_instruction_disc_len(
                    OnChainIdl_account_disc_len(
                        OnChainIdl_program_name(ReadOk(<<>>, bs)))))))

\* validate_on_chain_idl, from the deserialised index on.
validate_deserialized(p, read) ==
    IF ~read.ok THEN PErr("try_from_slice")
    ELSE IF read.val # p THEN [PPanic EXCEPT !.cause = "assert_eq!"]
    ELSE POk(p)

\* validate_on_chain_idl, from the serialised index on.
validate_serialized(p, written) ==
    IF ~written.ok THEN PErr("try_to_vec")
    ELSE validate_deserialized(p, OnChainIdl_try_from_slice(written.bytes))

\* validate_on_chain_idl.
validate_on_chain_idl(p) == validate_serialized(p, OnChainIdl_serialize(p))

(***************************************************************************)
(* The IDL compiler (parse_idl.rs).                                        *)
(***************************************************************************)
\* root.get(key).and_then(|v| v.as_array().cloned()).unwrap_or_default()
ArrayOrDefault(m, key) == IF Get(m, key).j = "arr" THEN Get(m, key).items ELSE <<>>

RECURSIVE parse_types_from(_, _)
parse_types_from(type_map_list, idl_type_map) ==
    IF type_map_list = <<>> THEN POk(idl_type_map)
    ELSE LET raw_type_map == Head(type_map_list)
             type_name == Get(raw_type_map.m, "name")
         IN  IF raw_type_map.j # "obj" THEN PErr("Type map is not an object")
             ELSE IF type_name.j # "str" THEN PErr("Type name is not a string")
             ELSE parse_types_from(Tail(type_map_list),
                                   Insert(idl_type_map, type_name.s, raw_type_map.m))

parse_types(root) ==
    IF Get(root, "types").j # "arr" THEN PErr("Types is not an array")
    ELSE parse_types_from(Get(root, "types").items, EmptyMap)

RECURSIVE parse_accounts_from(_, _)
\* Variant: an account with an inline layout replaces the entry of its name.
RECURSIVE parse_accounts_from_Overwrite(_, _)
parse_accounts_from_Overwrite(account_map_list, idl_type_map) ==
    IF account_map_list = <<>> THEN POk(idl_type_map)
    ELSE LET raw_account_map == Head(account_map_list)
             account_name == Get(raw_account_map.m, "name")
         IN  IF raw_account_map.j # "obj" THEN PErr("Account map is not an object")
             ELSE IF account_name.j # "str" THEN PErr("Account name is not a string")
             ELSE parse_accounts_from_Overwrite(Tail(account_map_list),
                      IF "type" \in DOMAIN raw_account_map.m
                      THEN Insert(idl_type_map, account_name.s, raw_account_map.m)
                      ELSE idl_type_map)
parse_accounts_from(account_map_list, idl_type_map) ==
    IF account_map_list = <<>> THEN POk(idl_type_map)
    ELSE LET raw_account_map == Head(account_map_list)
             account_name == Get(raw_account_map.m, "name")
         IN  IF raw_account_map.j # "obj" THEN PErr("Account map is not an object")
             ELSE IF account_name.j # "str" THEN PErr("Account name is not a string")
             ELSE parse_accounts_from(Tail(account_map_list),
                      IF "type" \in DOMAIN raw_account_map.m
                             /\ account_name.s \notin DOMAIN idl_type_map
                      THEN Insert(idl_type_map, account_name.s, raw_account_map.m)
                      ELSE idl_type_map)

parse_accounts(root, idl_type_map) ==
    parse_accounts_from(ArrayOrDefault(root, "accounts"), idl_type_map)

\* parse_any_discriminator: the key (a u64, as its 8 little-endian bytes)
\* and the width.
parse_any_discriminator(v) ==
    IF v.j = "obj" THEN
        LET typ == Get(v.m, "type")
            val == Get(v.m, "value")
        IN  IF typ.j # "str" THEN PErr("Discriminant type is not a string")
            ELSE IF typ.s \notin {Str("u8"), Str("u64")}
                THEN PErr("Unknown discriminant type")
            ELSE IF val.j # "num" THEN PErr("Discriminant value is not a u64")
            ELSE POk(<<LeBytes(val.n, 8), IF typ.s = Str("u8") THEN 1 ELSE 8>>)
    ELSE IF v.j = "arr" THEN
        LET arr == v.items
            n == Min(Len(arr), 8)
        IN  IF \E i \in 1..n : arr[i].j # "num"
            THEN PErr("Discriminator byte is not a number")
            ELSE POk(<<[i \in 1..8 |-> IF i <= n THEN arr[i].n % 256 ELSE 0],
                       Len(arr) % 256>>)
    ELSE PErr("Unsupported discriminator/discriminant value")

parse_implicit_discriminant(account_name) ==
    POk(<<Take(hash(Str("account:") \o account_name), 8), 8>>)

\* Variant: the name is hashed as it is written.
parse_implicit_instruction_discriminant_AsWritten(instruction_name) ==
    POk(<<Take(hash(Str("global:") \o instruction_name), 8), 8>>)

parse_implicit_instruction_discriminant(instruction_name) ==
    POk(<<Take(hash(Str("global:") \o camel_to_snake_case(instruction_name)), 8), 8>>)

\* entry.get("discriminant").or_else(|| entry.get("discriminator"))
ExplicitDiscriminator(m) ==
    IF "discriminant" \in DOMAIN m THEN m["discriminant"] ELSE Get(m, "discriminator")

\* Mutant: the widths found are not compared.
disc_len_FirstFound(disc_types) ==
    POk(IF disc_types = {} THEN 8 ELSE CHOOSE w \in disc_types : TRUE)

\* The uniform width of the entries: more than one width found is an error,
\* none found gives 8.
disc_len(disc_types) ==
    IF Cardinality(disc_types) > 1 THEN PErr("Multiple discriminant types found")
    ELSE POk(IF disc_types = {} THEN 8 ELSE CHOOSE w \in disc_types : TRUE)

\* The end of parse_account_schemas and of parse_instructions: the widths
\* found give the width of the table.
UniformWidth(r) ==
    LET len == disc_len(r.val.widths)
    IN  IF r.st # "Ok" THEN r
        ELSE IF len.st # "Ok"
            THEN [r EXCEPT !.st = len.st, !.cause = len.cause, !.val = len.val]
        ELSE [r EXCEPT !.val = [entries |-> r.val.entries, disc_len |-> len.val]]

\* One turn of the loop of parse_account_schemas: found holds accounts and
\* account_disc_types.
\* Variant: an account whose key is taken already is not inserted.
parse_account_schema_KeepFirst(raw_account_map, schema_map, found) ==
    LET account_name == Get(raw_account_map.m, "name")
        disc == ExplicitDiscriminator(raw_account_map.m)
        key_len == IF disc # Absent THEN parse_any_discriminator(disc)
                   ELSE parse_implicit_discriminant(account_name.s)
    IN  IF raw_account_map.j # "obj" THEN PErr("Account map is not an object")
        ELSE IF account_name.j # "str" THEN PErr("Account name is not a string")
        ELSE IF key_len.st # "Ok" THEN key_len
        ELSE IF account_name.s \notin DOMAIN schema_map
            THEN PErr("Account not found in schema map")
        ELSE POk([entries |-> IF key_len.val[1] \in DOMAIN found.entries THEN found.entries
                              ELSE Insert(found.entries, key_len.val[1],
                                          schema_map[account_name.s]),
                  widths |-> found.widths \cup {key_len.val[2]}])

parse_account_schema(raw_account_map, schema_map, found) ==
    LET account_name == Get(raw_account_map.m, "name")
        disc == ExplicitDiscriminator(raw_account_map.m)
        key_len == IF disc # Absent THEN parse_any_discriminator(disc)
                   ELSE parse_implicit_discriminant(account_name.s)
    IN  IF raw_account_map.j # "obj" THEN PErr("Account map is not an object")
        ELSE IF account_name.j # "str" THEN PErr("Account name is not a string")
        ELSE IF key_len.st # "Ok" THEN key_len
        ELSE IF account_name.s \notin DOMAIN schema_map
            THEN PErr("Account not found in schema map")
        ELSE POk([entries |-> Insert(found.entries, key_len.val[1],
                                     schema_map[account_name.s]),
                  widths |-> found.widths \cup {key_len.val[2]}])

RECURSIVE parse_account_schemas_from(_, _, _)
parse_account_schemas_from(account_map_list, schema_map, found) ==
    IF found.st # "Ok" \/ account_map_list = <<>> THEN found
    ELSE parse_account_schemas_from(Tail(account_map_list), schema_map,
             parse_account_schema(Head(account_map_list), schema_map, found.val))

parse_account_schemas(root, schema_map) ==
    UniformWidth(parse_account_schemas_from(ArrayOrDefault(root, "accounts"), schema_map,
                                            POk([entries |-> EmptyMap, widths |-> {}])))

parse_instruction_accounts(instruction_map) ==
    LET accounts_list == Get(instruction_map, "accounts")
        bad(raw_account) ==
            raw_account.j # "obj" \/ Get(raw_account.m, "name").j # "str"
        stops == {i \in 1..Len(accounts_list.items) : bad(accounts_list.items[i])}
        stop == CHOOSE i \in stops : \A k \in stops : i <= k
    IN  IF accounts_list.j # "arr" THEN PErr("Accounts is not an array")
        ELSE IF stops # {} THEN
            IF accounts_list.items[stop].j # "obj" THEN PErr("Account is not an object")
            ELSE PErr("Account name is not a string")
        ELSE POk([i \in 1..Len(accounts_list.items) |-> accounts_list.items[i].m["name"].s])

parse_instruction_args(instruction_map) == POk(ArrayOrDefault(instruction_map, "args"))

\* The second half of a turn of the loop of parse_instructions, from the
\* outcome of parse_fields on.
insert_instruction(instruction_map, found, accounts, instruction_args_parser) ==
    LET disc == ExplicitDiscriminator(instruction_map)
        key_len == IF disc # Absent THEN parse_any_discriminator(disc)
                   ELSE parse_implicit_instruction_discriminant(instruction_map["name"].s)
    IN  IF instruction_args_parser.st # "Ok" THEN instruction_args_parser
        ELSE IF key_len.st # "Ok" THEN WithCache(key_len, instruction_args_parser.cache)
        ELSE COk([entries |-> Insert(found.entries, key_len.val[1],
                                     InstructionDecoder(accounts,
                                                        instruction_args_parser.val)),
                  widths |-> found.widths \cup {key_len.val[2]}],
                 instruction_args_parser.cache)

\* One turn of the loop of parse_instructions: found holds
\* instruction_params and instruction_disc_types, cache is idl_parser's.
parse_instruction(raw_instruction_map, self, found, cache) ==
    LET instruction_map == raw_instruction_map.m
        instruction_name == Get(instruction_map, "name")
        accounts == parse_instruction_accounts(instruction_map)
        instruction_args == parse_instruction_args(instruction_map).val
    IN  IF raw_instruction_map.j # "obj"
            THEN CErr("Instruction map is not an object", cache)
        ELSE IF instruction_name.j # "str"
            THEN CErr("Instruction name is not a string", cache)
        ELSE IF accounts.st # "Ok" THEN WithCache(accounts, cache)
        ELSE insert_instruction(instruction_map, found, accounts.val,
                 IF instruction_args = <<>>
                 THEN COk(NewNode(instruction_name.s, Prim("Empty")), cache)
                 ELSE parse_fields(self, instruction_name.s, instruction_args, cache, {}))

\* parse_instructions: an outcome carries the cache of idl_parser.
RECURSIVE parse_instructions_from(_, _, _)
parse_instructions_from(instruction_map_list, self, found) ==
    IF found.st # "Ok" \/ instruction_map_list = <<>> THEN found
    ELSE parse_instructions_from(Tail(instruction_map_list), self,
             parse_instruction(Head(instruction_map_list), self, found.val, found.cache))

parse_instructions(root, self, cache) ==
    UniformWidth(parse_instructions_from(ArrayOrDefault(root, "instructions"), self,
                                         COk([entries |-> EmptyMap, widths |-> {}], cache)))

\* HashMap::into_iter().collect(): the entries in an order of the map's.
Collect(map, order) == [i \in 1..Len(order) |-> <<order[i], map[order[i]]>>]

NoCache(r) == [st |-> r.st, cause |-> r.cause, val |-> r.val]

\* parse_idl from the two tables on: the outcomes that the iteration orders
\* of the two HashMaps allow.
on_chain_idl_of(root, accounts, instructions) ==
    LET name == Get(root, "name")
        program_name == IF name.j = "str" THEN name.s ELSE <<>>
    IN  IF accounts.st # "Ok" THEN {accounts}
        ELSE IF instructions.st # "Ok" THEN {NoCache(instructions)}
        ELSE {validate_on_chain_idl(
                  OnChainIdl(program_name,
                             accounts.val.disc_len, instructions.val.disc_len,
                             Collect(accounts.val.entries, account_order),
                             Collect(instructions.val.entries, instruction_order))) :
                account_order \in Orders(DOMAIN accounts.val.entries),
                instruction_order \in Orders(DOMAIN instructions.val.entries)}

\* parse_idl from the outcome of IdlParser::parse on.
parse_idl_with(root, idl_type_map, schema_map) ==
    IF schema_map.st # "Ok" THEN {NoCache(schema_map)}
    ELSE on_chain_idl_of(root, parse_account_schemas(root, schema_map.val),
                         parse_instructions(root, idl_type_map, schema_map.cache))

\* parse_idl from IdlParser::new on, the keys of type_map taken in the
\* order keys.
parse_idl_in_order(root, idl_type_map, keys) ==
    parse_idl_with(root, idl_type_map, parse(idl_type_map, keys, COk(EmptyMap, EmptyMap)))

\* parse_idl, from the parsed document on: the set of the outcomes that
\* the iteration orders of its HashMaps allow.
parse_idl(json_value) ==
    LET types_only == parse_types(json_value.m)
        idl_type_map == parse_accounts(json_value.m, types_only.val)
    IN  IF json_value.j = "invalid" THEN {PErr("serde_json::from_str")}
        ELSE IF json_value.j # "obj" THEN {PErr("Root is not an object")}
        ELSE IF types_only.st # "Ok" THEN {types_only}
        ELSE IF idl_type_map.st # "Ok" THEN {idl_type_map}
        ELSE UNION {parse_idl_in_order(json_value.m, idl_type_map.val, keys) :
                        keys \in Orders(DOMAIN idl_type_map.val)}

(***************************************************************************)
(* IDL compiler: one parse_idl call on a document.  The documents vary the *)
(* discriminator forms of the account and instruction entries over a table *)
(* of types, and the table of types over fixed entries.                    *)
(***************************************************************************)
Field(name, type) == JObj([name |-> JStr(name), type |-> type])
StructDef(name, fields) ==
    JObj([name |-> JStr(name),
          type |-> JObj([kind |-> JStr(Str("struct")), fields |-> JArr(fields)])])
EnumDef(name, variants) ==
    JObj([name |-> JStr(name),
          type |-> JObj([kind |-> JStr(Str("enum")), variants |-> JArr(variants)])])
Defined(name) == JObj([defined |-> JStr(name)])

TypeA == StructDef(NameA, <<Field(Str("x"), JStr(Str("u8"))),
                            Field(Str("y"), JObj([vec |-> JStr(Str("u16"))]))>>)
TypeB == EnumDef(NameB, <<JObj([name |-> JStr(Str("off"))]),
                          JObj([name |-> JStr(Str("on")),
                                fields |-> JArr(<<JStr(Str("u8"))>>)])>>)
TypeC == StructDef(NameC, <<Field(Str("p"), Defined(NameA)),
                            Field(Str("q"), JObj([array |-> JArr(<<JStr(Str("u8")), JNum(2)>>)])),
                            Field(Str("r"), JStr(Str("[u16; 2]"))),
                            Field(Str("s"), Defined(Str("SmallVec<u8,Pubkey>"))),
                            Field(Str("t"), JObj([option |-> JStr(Str("bool"))]))>>)
TypeARest == StructDef(NameA, <<Field(Str("x"), JStr(Str("u8"))),
                                Field(Str("tail"), JStr(Str("rest")))>>)
TypeCSimple == StructDef(NameC, <<Field(Str("p"), Defined(NameB))>>)
TypeCCyclic == StructDef(NameC, <<Field(Str("p"), JObj([option |-> Defined(NameC)]))>>)
TypeCUnknownName == StructDef(NameC, <<Field(Str("p"), JStr(Str("u7")))>>)
TypeDUnknownKind ==
    JObj([name |-> JStr(Str("d")), type |-> JObj([kind |-> JStr(Str("union"))])])

TypeCCyclicAfterError ==
    StructDef(NameC, <<Field(Str("p"), JObj([tuple |-> JStr(Str("u8"))])),
                       Field(Str("q"), Defined(NameC))>>)
TypeCCyclicSmallVec == StructDef(NameC, <<Field(Str("p"), Defined(Str("SmallVec<u8,c>")))>>)
TypeAToC == StructDef(NameA, <<Field(Str("x"), JStr(Str("u8"))), Field(Str("y"), Defined(NameC))>>)
TypeCToA == StructDef(NameC, <<Field(Str("p"), JObj([vec |-> Defined(NameA)]))>>)
TypeBNoType == JObj([name |-> JStr(NameB)])
TypeBNoName == JObj([type |-> JObj([kind |-> JStr(Str("struct")), fields |-> JArr(<<>>)])])
TypeCNoFieldName == StructDef(NameC, <<JObj([type |-> JStr(Str("u8"))])>>)
TypeCNoFieldType == StructDef(NameC, <<JObj([name |-> JStr(Str("p"))])>>)
TypeBNoVariantName == EnumDef(NameB, <<JObj([fields |-> JArr(<<JStr(Str("u8"))>>)])>>)

PlainTypes == <<TypeA, TypeB, TypeC>>
TypeTables ==
    {PlainTypes,
     <<TypeARest, TypeB, TypeCSimple>>,
     <<TypeA, TypeB, TypeCSimple, TypeDUnknownKind>>,
     <<TypeA, TypeB, TypeCCyclic>>,
     <<TypeA, TypeB, TypeCUnknownName>>,
     <<TypeB, TypeCSimple, TypeA, TypeARest>>,
     <<TypeA, TypeB>>,
     <<TypeA, JStr(NameB)>>,
     <<TypeA, TypeB, TypeCCyclicAfterError>>,
     <<TypeA, TypeB, TypeCCyclicSmallVec>>,
     <<TypeAToC, TypeB, TypeCToA>>,
     <<TypeA, TypeBNoType>>,
     <<TypeA, TypeBNoName>>,
     <<TypeA, TypeB, TypeCNoFieldName>>,
     <<TypeA, TypeB, TypeCNoFieldType>>,
     <<TypeA, TypeBNoVariantName>>}

\* The discriminator forms of an entry: none (implicit), the object form
\* of type u8 (with a value of one byte and of two) and u64, and byte
\* arrays of 0, 1, 8 and MaxDiscLen bytes.
DiscBytes(n) ==
    JArr([i \in 1..n |-> JNum(IF n = 1 THEN 257 ELSE IF i = 1 THEN 2
                              ELSE IF i = 2 THEN 1 ELSE IF i > 8 THEN 7 ELSE 0)])
DiscObject(typ, val) == JObj([type |-> JStr(typ), value |-> JNum(val)])
DiscForms ==
    {Absent, DiscObject(Str("u8"), 1), DiscObject(Str("u8"), 300),
     DiscObject(Str("u64"), 258)}
        \cup {DiscBytes(n) : n \in {0, 1, 8, MaxDiscLen}}
DiscLists == {l \in SeqsUpTo(DiscForms, MaxEntries) : TRUE}

EntryNames == <<NameA, NameB, NameC>>
InstructionNames == <<Str("mintV1"), Str("CreateTree"), Str("doIt")>>
InstructionArgs ==
    <<JArr(<<>>),
      JArr(<<Field(Str("x"), JStr(Str("u8")))>>),
      JArr(<<Field(Str("p"), Defined(NameC))>>)>>
Role(name) == JObj([name |-> JStr(name)])
Wrap(i) == ((i - 1) % 3) + 1

\* The account entry at position i: objects carry the legacy key
\* "discriminant", byte arrays the key "discriminator".
AccountEntry(i, disc) ==
    LET name == JStr(EntryNames[Wrap(i)])
    IN  IF disc = Absent THEN JObj([name |-> name])
        ELSE IF disc.j = "obj" THEN JObj([name |-> name, discriminant |-> disc])
        ELSE JObj([name |-> name, discriminator |-> disc])

InstructionEntry(i, disc) ==
    LET name == JStr(InstructionNames[Wrap(i)])
        accounts == JArr([k \in 1..(i - 1) |-> Role(RoleNames[Wrap(k)])])
        args == InstructionArgs[Wrap(i)]
    IN  IF disc = Absent THEN JObj([name |-> name, accounts |-> accounts, args |-> args])
        ELSE IF disc.j = "obj"
            THEN JObj([name |-> name, accounts |-> accounts, args |-> args,
                       discriminant |-> disc])
        ELSE JObj([name |-> name, accounts |-> accounts, args |-> args,
                   discriminator |-> disc])

Accounts(discs) == JArr([i \in 1..Len(discs) |-> AccountEntry(i, discs[i])])
Instructions(discs) == JArr([i \in 1..Len(discs) |-> InstructionEntry(i, discs[i])])

Document(types, accounts, instructions) ==
    JObj([name |-> JStr(ProgramName), types |-> types, accounts |-> accounts,
          instructions |-> instructions])

\* An account of the legacy style, which carries its layout inline.
LegacyAccount ==
    JObj([name |-> JStr(NameA),
          type |-> JObj([kind |-> JStr(Str("struct")),
                         fields |-> JArr(<<Field(Str("z"), JStr(Str("bool")))>>)])])

\* An instruction whose only argument is arg.
InstructionOf(arg) ==
    JObj([name |-> JStr(Str("doIt")), accounts |-> JArr(<<>>), args |-> JArr(<<arg>>)])

Documents ==
    {Document(JArr(PlainTypes), Accounts(d), Instructions(<<Absent>>)) : d \in DiscLists}
    \cup {Document(JArr(PlainTypes), Accounts(<<Absent>>), Instructions(d)) : d \in DiscLists}
    \cup {Document(JArr(t), Accounts(a), Instructions(i)) :
              t \in TypeTables,
              a \in {<<>>, <<Absent>>, <<Absent, Absent, Absent>>},
              i \in {<<>>, <<Absent, Absent, Absent>>}}
    \cup {Document(JArr(t), JArr(<<LegacyAccount>>), Instructions(<<Absent>>)) :
              t \in {<<>>, PlainTypes}}
    \cup {Document(JArr(PlainTypes), Accounts(<<Absent>>), JArr(<<InstructionOf(a)>>)) :
              a \in {JObj([type |-> JStr(Str("u8"))]), JObj([name |-> JStr(Str("x"))])}}
    \cup {JObj([accounts |-> Accounts(<<Absent>>), instructions |-> Instructions(<<Absent>>)]),
          JObj([types |-> JArr(PlainTypes)]),
          JObj([types |-> JArr(PlainTypes), accounts |-> Accounts(<<Absent>>)]),
          JObj([types |-> JArr(PlainTypes), instructions |-> Instructions(<<Absent>>)]),
          Document(JArr(PlainTypes), JNull, Instructions(<<Absent>>)),
          Document(JArr(PlainTypes), Accounts(<<Absent>>), JStr(<<>>)),
          Document(JNull, Accounts(<<>>), Instructions(<<>>)),
          JArr(<<>>), JInvalid}

InitCompile ==
    /\ mode = "compile"
    /\ json \in Documents
    /\ on_chain_idl = None
    /\ IdleCodec /\ IdleDecode /\ IdleIndex /\ IdleFunction /\ show_hidden = FALSE

\* let on_chain_idl = parse_idl(json_str)
ParseIdl ==
    /\ mode = "compile"
    /\ on_chain_idl = None
    /\ on_chain_idl' \in parse_idl(json)
    /\ UNCHANGED <<mode, json, codecVars, decodeVars, indexVars, functionVars, show_hidden>>

NextCompile == ParseIdl
SpecCompile == InitCompile /\ [][NextCompile]_vars

(***************************************************************************)
(* Compiler functions: one call of a function of parse_idl.rs on its       *)
(* arguments.                                                              *)
(***************************************************************************)
\* The type CompiledInstruction of the test parses_smallvec_definitions.
NameCI == Str("CompiledInstruction")
TypeCI ==
    StructDef(NameCI, <<Field(Str("programIdIndex"), JStr(Str("u8"))),
                        Field(Str("accountIndexes"), Defined(Str("SmallVec<u8,u8>"))),
                        Field(Str("data"), Defined(Str("SmallVec<u16,u8>")))>>)

\* The type_map of the IdlParser, and its parsed_cache before and after
\* IdlParser::parse (the keys in their sorted order).
ParserTypes == <<TypeA, TypeB, TypeC, TypeCI, TypeDUnknownKind>>
ParserTypeMap == parse_types([types |-> JArr(ParserTypes)]).val
SortedKeys(S) == CHOOSE o \in Orders(S) : \A i \in 1..(Len(o) - 1) : LexLess(o[i], o[i + 1])
ParserCaches ==
    {EmptyMap,
     parse(ParserTypeMap, SortedKeys(DOMAIN ParserTypeMap), COk(EmptyMap, EmptyMap)).cache}

\* Field types: names of primitives, bracket shorthand, unknown names,
\* defined names and SmallVec descriptors, and the object forms over them.
PrimitiveNames == {Str("u8"), Str("publicKey"), Str("bool"), Str("bytes")}
ShorthandNames == {Str("[u8; 3]"), Str("[publicKey; 2]"), Str("[ u16 ;0 ]"), Str("[[u8; 2]; 1]")}
BadShorthandNames == {Str("[u8]"), Str("[u8; 2; 3]"), Str("[u8; x]"), Str("[u7; 2]")}
UnknownNames == {Str("u7"), Str("Pubkey"), Str("")}
SmallVecName(len_s, elem_s) == Str("SmallVec<") \o len_s \o Str(",") \o elem_s \o Str(">")
SmallVecNames ==
    {SmallVecName(l, e) :
         l \in {Str("u8"), Str("u16")},
         e \in {SmallVecElemTypes[i][1] : i \in 1..Len(SmallVecElemTypes)}
                  \cup {Str("pubkey"), Str("publicKey")} \cup DOMAIN ParserTypeMap}
        \cup {Str("SmallVec<u16, publickey>"), Str("SmallVec< u8 ,a>"),
              Str("SmallVec<u8,missing>"), Str("SmallVec<u8,bytes>")}
\* Descriptors of one, two and three parameters.
RECURSIVE Join(_, _)
Join(parts, sep) ==
    IF Len(parts) = 1 THEN Head(parts) ELSE Head(parts) \o sep \o Join(Tail(parts), sep)
Descriptor(params) == Str("SmallVec<") \o Join(params, Str(",")) \o Str(">")
DescriptorParams == {Str("u8"), Str("u16"), Str("u32"), Str("a"), Str("")}
DescriptorNames ==
    {Descriptor(ps) : ps \in UNION {[1..n -> DescriptorParams] : n \in 1..3}}
BadSmallVecNames ==
    DescriptorNames
        \cup {Str("SmallVec<U8,u8>"), Str("SmallVec<u64,a>"), Str("SmallVec<usize,u8>"),
              Str("SmallVec<u8;u8>")}
DefinedNames == {NameA, NameB, NameC, NameCI, Str("d"), Str("missing")}

\* The bracket shorthand of every name of the table and of a few lengths.
Bracket(ty_s, len_s) == <<91>> \o ty_s \o Str("; ") \o len_s \o <<93>>
BracketLens == (0..MaxArrayLen) \cup {3, 10, 32}
BracketNames ==
    {Bracket(RawSchemaTypes[i][1], Decimal(n)) : i \in 1..Len(RawSchemaTypes), n \in BracketLens}

Names ==
    PrimitiveNames \cup ShorthandNames \cup BadShorthandNames \cup UnknownNames
        \cup BracketNames
Elements ==
    {JStr(n) : n \in Names \ BracketNames}
        \cup {Defined(n) : n \in DefinedNames}
        \cup {Defined(Str("SmallVec<u8,Pubkey>")), Defined(Str("SmallVec<u32,u8>"))}
        \cup {JObj([defined |-> JNum(1)]), JObj([tuple |-> JStr(Str("u8"))]),
              JObj(EmptyMap), JNum(1), JNull}
ArrayOf2(t, n) == JObj([array |-> JArr(<<t, n>>)])
ObjectForms(E) ==
    {JObj([vec |-> t]) : t \in E} \cup {JObj([option |-> t]) : t \in E}
        \cup {ArrayOf2(t, JNum(n)) : t \in E, n \in 0..MaxArrayLen}
NestedElements ==
    ObjectForms({JStr(Str("u8")), Defined(NameA), Defined(Str("SmallVec<u8,u8>"))})
BadArrays ==
    {JObj([array |-> JStr(Str("u8"))]), JObj([array |-> JArr(<<>>)]),
     JObj([array |-> JArr(<<JStr(Str("u8"))>>)]),
     ArrayOf2(JStr(Str("u8")), JStr(Str("2")))}
FieldTypes ==
    Elements \cup {JStr(n) : n \in BracketNames}
        \cup {Defined(n) : n \in SmallVecNames \cup BadSmallVecNames}
        \cup ObjectForms(Elements)
        \cup ObjectForms(NestedElements) \cup BadArrays

\* Names to convert: every string of a lowercase letter, two uppercase
\* letters, a digit and an underscore up to MaxNameLen, and the names of
\* test_camel_to_snake_case.
CaseAlphabet == {97, 65, 66, 49, 95}
CaseNames ==
    UNION {[1..n -> CaseAlphabet] : n \in 0..MaxNameLen}
        \cup {Str("mintV1"), Str("CreateTree"), Str("CancelRedeem"),
              Str("NFTMetadataUpdate"), Str("doAbc123")}

\* Values of a discriminant/discriminator key: the forms of the documents,
\* objects of every type string and value, arrays of bytes, arrays with
\* an item that is not a byte, and values of another shape.
DiscItems == {JNum(0), JNum(1), JNum(255), JNum(257), JStr(Str("1")), JNull}
DiscValues ==
    (DiscForms \ {Absent})
        \cup {JObj([type |-> t, value |-> n]) :
                  t \in {JStr(Str("u8")), JStr(Str("u64")), JStr(Str("u16")),
                         JStr(Str("U8")), JStr(<<>>), JNum(8), JNull},
                  n \in {JNum(0), JNum(7), JNum(300), JStr(Str("7")), JNull}}
        \cup {JObj([type |-> JStr(Str("u8"))]), JObj([value |-> JNum(1)]), JObj(EmptyMap)}
        \cup {JArr(items) : items \in SeqsUpTo(DiscItems, 2)}
        \cup {JArr([i \in 1..MaxDiscLen |-> IF i = k THEN item ELSE JNum(i)]) :
                  k \in {1, 8, MaxDiscLen}, item \in DiscItems}
        \cup {JStr(Str("u8")), JNum(1), JNull}

\* Account entries for parse_accounts: of the legacy style under a name of
\* the types table and under a new name, each with two layouts, entries
\* without layout, and an entry that is no object; the table is empty or
\* the one of parse_types.
Layout(type) ==
    JObj([kind |-> JStr(Str("struct")), fields |-> JArr(<<Field(Str("z"), JStr(type))>>)])
AccountForms ==
    {JObj([name |-> JStr(n), type |-> Layout(t)]) :
         n \in {NameA, Str("n")}, t \in {Str("bool"), Str("u8")}}
        \cup {JObj([name |-> JStr(n)]) : n \in {NameA, Str("n")}}
        \cup {JNull}
NameTables == {EmptyMap, parse_types([types |-> JArr(PlainTypes)]).val}

FunctionCalls ==
    {<<"parse_field_inner", [parsed_cache |-> c, field_type |-> t]>> :
         c \in ParserCaches, t \in FieldTypes}
        \cup {<<"camel_to_snake_case", [s |-> n]>> : n \in CaseNames}
        \cup {<<"parse_any_discriminator", [v |-> d]>> : d \in DiscValues}
        \cup {<<"parse_accounts", [root |-> [accounts |-> JArr(l)], idl_type_map |-> m]>> :
                  l \in SeqsUpTo(AccountForms, MaxEntries + 1), m \in NameTables}

InitFunction ==
    /\ mode = "function"
    /\ \E c \in FunctionCalls : callee = c[1] /\ arguments = c[2]
    /\ returned = None
    /\ IdleCodec /\ IdleDecode /\ IdleIndex /\ IdleCompile /\ show_hidden = FALSE

Return(outcome) ==
    /\ mode = "function"
    /\ returned = None
    /\ returned' = outcome
    /\ UNCHANGED <<mode, callee, arguments, codecVars, decodeVars, indexVars, compileVars, show_hidden>>

\* idl_parser.parse_field_inner(&field_type)
ParseFieldInner ==
    /\ callee = "parse_field_inner"
    /\ Return(parse_field_inner(ParserTypeMap, arguments.field_type,
                                arguments.parsed_cache, {}))

\* A function that returns a plain value has returned it.
Value(v) == [st |-> "Value", val |-> v]

\* camel_to_snake_case(s)
CamelToSnakeCase ==
    /\ callee = "camel_to_snake_case"
    /\ Return(Value(camel_to_snake_case(arguments.s)))

\* parse_any_discriminator(v)
ParseAnyDiscriminator ==
    /\ callee = "parse_any_discriminator"
    /\ Return(parse_any_discriminator(arguments.v))

\* parse_accounts(root, &mut idl_type_map): the table it leaves.
ParseAccounts ==
    /\ callee = "parse_accounts"
    /\ Return(parse_accounts(arguments.root, arguments.idl_type_map))

NextFunction ==
    \/ ParseFieldInner
    \/ CamelToSnakeCase
    \/ ParseAnyDiscriminator
    \/ ParseAccounts
SpecFunction == InitFunction /\ [][NextFunction]_vars

(***************************************************************************)
(* Claims on the Schema Binary Codec.                                      *)
(***************************************************************************)

\* Whether RemainingBytes occurs in a schema type.
RECURSIVE UsesRemainingBytes(_)
UsesRemainingBytes(t) ==
    CASE t.k = "RemainingBytes" -> TRUE
      [] t.k \in {"Option", "Array", "Vec", "SmallVec"} -> UsesRemainingBytes(t.inner)
      [] t.k = "Tuple" -> \E i \in 1..Len(t.items) : UsesRemainingBytes(t.items[i])
      [] t.k \in {"Struct", "Enum"} ->
            \E i \in 1..Len(t.nodes) : UsesRemainingBytes(t.nodes[i].typ)
      [] OTHER -> FALSE

\* C1: every schema of the variant set, RemainingBytes included, encodes to
\* bytes, and decoding those bytes yields a value equal to the original.
C1_CodecRoundTrip ==
    /\ serialized # None => serialized.ok
    /\ deserialized # None => deserialized.ok /\ deserialized.val = schema

(***************************************************************************)
(* Claims on the byte decoder.                                             *)
(***************************************************************************)
Decoded == mode = "decode" /\ value # None

\* The bytes a leaf type consumes.
LeafWidth(t) == IF t = Empty THEN 0 ELSE IF t = U8 THEN 1 ELSE 2

RECURSIVE FieldOffset(_, _)
FieldOffset(nodes, i) ==
    IF i = 1 THEN 0 ELSE FieldOffset(nodes, i - 1) + LeafWidth(nodes[i - 1].typ)

\* The positions of the fields the caller is shown.
ShownFields(nodes, show) ==
    SelectSeq([i \in 1..Len(nodes) |-> i], LAMBDA i : show \/ ~nodes[i].is_hidden)

\* C7: a Struct's output lists, in declared order, the fields that are not
\* hidden (all of them with show_hidden); every field, hidden or not, is
\* decoded in declared order, so a leaf field's value is read at the offset
\* after all the fields declared before it.
C7_StructHiddenFields ==
    (Decoded /\ node.typ.k = "Struct" /\ value.st = "Ok") =>
        LET nodes == node.typ.nodes
            shown == ShownFields(nodes, show_hidden)
            fields == value.val.value.fields
        IN  /\ Len(fields) = Len(shown)
            /\ Len(fields) = Cardinality({i \in 1..Len(nodes) :
                                            show_hidden \/ ~nodes[i].is_hidden})
            /\ show_hidden => Len(fields) = Len(nodes)
            /\ \A j \in 1..Len(fields) :
                  /\ fields[j].name = nodes[shown[j]].name
                  /\ (\A i \in 1..Len(nodes) : nodes[i].typ \in DecLeaves) =>
                        fields[j].value =
                            DeserializePrimitive(
                                nodes[shown[j]].typ,
                                Drop(bytes, FieldOffset(nodes, shown[j]))).val

\* C7 witness: a struct whose first field is hidden and whose second is
\* not, decoded with show_hidden = FALSE: the output holds the second only.
C7_Witness ==
    /\ Decoded /\ node.typ.k = "Struct" /\ value.st = "Ok" /\ ~show_hidden
    /\ node.typ.nodes = <<SchemaNode(NameA, U8, TRUE), SchemaNode(NameB, U16, FALSE)>>
    /\ bytes = <<1, 2, 0>>
    /\ value.val.value.fields = <<ValueNode(NameB, [k |-> "U16", v |-> 2])>>

SelectsVariant(i) ==
    /\ Decoded /\ node.typ.k = "Enum" /\ bytes # <<>> /\ bytes[1] = i

\* C8: decoding an Enum whose selected variant is hidden fails, whatever
\* show_hidden is.
C8_HiddenVariantFails ==
    \A i \in 0..255 :
        (SelectsVariant(i) /\ i < Len(node.typ.nodes) /\ node.typ.nodes[i + 1].is_hidden)
            => value.st # "Ok"

\* C9: a selector that indexes no variant makes the decode return an error
\* value; it neither panics nor yields a value.
C9_SelectorOutOfRange ==
    \A i \in 0..255 :
        (SelectsVariant(i) /\ i >= Len(node.typ.nodes)) => value.st = "Err"

\* C10: the raw-bytes shapes read a little-endian count n from 4, 1 or 2
\* prefix bytes; with n bytes left the value is those n bytes verbatim and
\* the cursor is prefix + n bytes further on, with fewer the decode fails.
C10_RawBytes ==
    (Decoded /\ node.typ \in RawTypes) =>
        LET p == IF node.typ.k = "Vec" THEN 4 ELSE IF node.typ.len_ty = "U8" THEN 1 ELSE 2
            n == IF p = 1 THEN bytes[1]
                 ELSE IF p = 2 THEN bytes[1] + 256 * bytes[2]
                 ELSE bytes[1] + 256 * bytes[2] + 65536 * bytes[3] + 16777216 * bytes[4]
        IN  IF Len(bytes) < p THEN value.st = "Err"
            ELSE IF Len(bytes) - p < n THEN value.st = "Err"
            ELSE /\ value.st = "Ok"
                 /\ value.val.value = [k |-> "Bytes", buf |-> SubSeq(bytes, p + 1, p + n)]
                 /\ value.rest = SubSeq(bytes, p + n + 1, Len(bytes))
                 /\ Len(value.rest) = Len(bytes) - (p + n)

\* C10 witness: Vec(U8) on a count of 2 and exactly 2 more bytes.
C10_Witness ==
    /\ Decoded /\ node.typ = VecT(U8) /\ value.st = "Ok"
    /\ bytes = <<2, 0, 0, 0, 127, 1>>
    /\ value.val.value.buf = <<127, 1>>
    /\ value.rest = <<>>

\* C11: decoding RemainingBytes takes every byte left in the buffer, none
\* of them a length prefix, as one raw-bytes value and leaves the cursor
\* empty, also behind the other fields of a struct.
C11_RemainingBytes ==
    /\ (Decoded /\ node.typ = RemainingBytes) =>
           /\ value.st = "Ok"
           /\ value.val.value = [k |-> "Bytes", buf |-> bytes]
           /\ value.rest = <<>>
    /\ (Decoded /\ node.typ \in RestTypes /\ node.typ.k = "Struct" /\ bytes # <<>>) =>
           /\ value.st = "Ok"
           /\ value.val.value.fields[2].value = [k |-> "Bytes", buf |-> Tail(bytes)]
           /\ value.rest = <<>>

(***************************************************************************)
(* Claims on the Program Index.                                            *)
(***************************************************************************)
\* The first width bytes of the data (at most 8), zero-padded to 8 bytes.
PaddedKey(width) == [i \in 1..8 |-> IF i <= width THEN data[i] ELSE 0]

Matching(entries, key) == {i \in 1..Len(entries) : entries[i][1] = key}
FirstMatching(entries, key) ==
    CHOOSE i \in Matching(entries, key) : \A j \in Matching(entries, key) : i <= j

\* C3: get_parsed_account fails on a buffer shorter than the width w and
\* when no account entry has the key made of the first w bytes zero-padded
\* to 8 bytes; otherwise it returns the matched entry's schema and the value
\* decoded from the bytes from offset w onward (and fails when that decode
\* yields no value).
C3_DecodeAccount ==
    (mode = "index" /\ call = "account" /\ parsed # None) =>
        LET w == idl.account_disc_len
            key == PaddedKey(w)
        IN  IF Len(data) < w THEN parsed.st = "Err"
            ELSE IF Matching(idl.accounts, key) = {} THEN parsed.st = "Err"
            ELSE LET entry == idl.accounts[FirstMatching(idl.accounts, key)][2]
                     d == SchemaNode_deserialize_bytes(
                              entry, SubSeq(data, w + 1, Len(data)), show_hidden)
                 IN  IF d.st = "Ok" /\ d.val # None
                     THEN parsed = POk([name |-> entry.name, schema |-> entry.typ,
                                        value |-> d.val.value])
                     ELSE parsed.st # "Ok"

\* C3 witness: width 1, key 1 and three payload bytes decoded as AccountA.
C3_Witness ==
    /\ mode = "index" /\ call = "account" /\ parsed # None /\ parsed.st = "Ok"
    /\ idl.account_disc_len = 1 /\ data = <<1, 2, 1, 0>> /\ show_hidden
    /\ parsed.val.schema = AccountA.typ
    /\ parsed.val.value.fields =
          <<ValueNode(NameA, [k |-> "U8", v |-> 2]), ValueNode(NameB, [k |-> "U16", v |-> 1])>>

\* C4: the account-name list of get_parsed_instruction has one entry per
\* supplied address, in order: the declared role name at that position when
\* the matched instruction declares one, else the placeholder "Account i".
C4_AccountNames ==
    (mode = "index" /\ call = "instruction" /\ parsed # None /\ parsed.st = "Ok") =>
        LET key == PaddedKey(idl.instruction_disc_len)
            declared ==
                idl.instruction_params[FirstMatching(idl.instruction_params, key)][2].accounts
            names == parsed.val.accounts
        IN  /\ Len(names) = Len(account_keys)
            /\ \A i \in 1..Len(names) :
                  names[i] = IF i <= Len(declared) THEN declared[i]
                             ELSE <<65, 99, 99, 111, 117, 110, 116, 32, 48 + i>>

\* C4 witness: three addresses against one declared role name.
C4_Witness ==
    /\ mode = "index" /\ call = "instruction" /\ parsed # None /\ parsed.st = "Ok"
    /\ Len(account_keys) = 3
    /\ parsed.val.accounts =
          <<RoleNames[1], <<65, 99, 99, 111, 117, 110, 116, 32, 50>>,
            <<65, 99, 99, 111, 117, 110, 116, 32, 51>>>>

(***************************************************************************)
(* Claims on the IDL compiler.                                             *)
(***************************************************************************)
Compiled == on_chain_idl # None

\* The entries of the document under a top-level key.
EntriesOf(key) ==
    IF json.j = "obj" /\ key \in DOMAIN json.m /\ json.m[key].j = "arr"
    THEN json.m[key].items ELSE <<>>

\* The byte-width that the discriminator of a well-formed entry declares.
EntryWidth(entry) ==
    LET d == IF "discriminant" \in DOMAIN entry.m THEN entry.m["discriminant"]
             ELSE IF "discriminator" \in DOMAIN entry.m THEN entry.m["discriminator"]
             ELSE Absent
    IN  IF d = Absent THEN 8
        ELSE IF d.j = "arr" THEN Len(d.items)
        ELSE IF d.m["type"].s = Str("u8") THEN 1 ELSE 8

Widths(key) == {EntryWidth(EntriesOf(key)[i]) : i \in 1..Len(EntriesOf(key))}

SelfCheckFailed == on_chain_idl.cause \in {"try_to_vec", "try_from_slice", "assert_eq!"}

\* C2: an index that parse_idl returns equals the index read back from its
\* serialised bytes, and the self-check of parse_idl fails on no document.
C2_IndexRoundTrip ==
    Compiled =>
        /\ ~SelfCheckFailed
        /\ on_chain_idl.st = "Ok" =>
              LET written == OnChainIdl_serialize(on_chain_idl.val)
              IN  /\ written.ok
                  /\ OnChainIdl_try_from_slice(written.bytes).ok
                  /\ OnChainIdl_try_from_slice(written.bytes).val = on_chain_idl.val

\* C5: a document in which two account entries, or two instruction
\* entries, declare different discriminator widths does not compile; in a
\* compiled index every account entry of the document has the width
\* account_disc_len and every instruction entry the width
\* instruction_disc_len.
C5_MixedWidthsRejected ==
    Compiled =>
        /\ (Cardinality(Widths("accounts")) > 1 \/ Cardinality(Widths("instructions")) > 1)
              => on_chain_idl.st # "Ok"
        /\ on_chain_idl.st = "Ok" =>
              /\ Widths("accounts") \subseteq {on_chain_idl.val.account_disc_len}
              /\ Widths("instructions") \subseteq {on_chain_idl.val.instruction_disc_len}

\* A document with a 1-byte and an 8-byte account discriminator, rejected.
C5_Witness ==
    /\ Compiled
    /\ {1, 8} \subseteq Widths("accounts")
    /\ on_chain_idl.st = "Err"
    /\ on_chain_idl.cause = "Multiple discriminant types found"

\* C6: both discriminator widths of a compiled index are in 1..8.
C6_WidthsInRange ==
    (Compiled /\ on_chain_idl.st = "Ok") =>
        /\ on_chain_idl.val.account_disc_len \in 1..8
        /\ on_chain_idl.val.instruction_disc_len \in 1..8

(***************************************************************************)
(* Claims on the functions of the compiler.                                *)
(***************************************************************************)
Returned == mode = "function" /\ returned # None
Resolved == Returned /\ callee = "parse_field_inner"

\* The resolution of a field type by the parser of the call.
Resolution(t) == parse_field_inner(ParserTypeMap, t, arguments.parsed_cache, {})

\* The field type of the call is the object form {array: [T, N]}.
IsArrayForm ==
    /\ Resolved
    /\ arguments.field_type.j = "obj"
    /\ DOMAIN arguments.field_type.m = {"array"}
    /\ arguments.field_type.m["array"].j = "arr"
    /\ Len(arguments.field_type.m["array"].items) = 2
    /\ arguments.field_type.m["array"].items[2].j = "num"
ArrayElement == arguments.field_type.m["array"].items[1]
ArrayLength == arguments.field_type.m["array"].items[2].n

\* C12: {array: [T, N]} with T resolving to T' resolves to Array(N, T'),
\* for T the name of a primitive and for T an object form.
C12_ArrayObjectForm ==
    (IsArrayForm /\ Resolution(ArrayElement).st = "Ok") =>
        /\ returned.st = "Ok"
        /\ returned.val = ArrayT(ArrayLength, Resolution(ArrayElement).val)

\* The bracket shorthand of every primitive name and length, with the
\* array it stands for.
BracketArrays ==
    {<<JStr(Bracket(RawSchemaTypes[i][1], Decimal(n))), ArrayT(n, RawSchemaTypes[i][2])>> :
         i \in 1..Len(RawSchemaTypes), n \in BracketLens}

\* C13: the type string "[T; N]", T the name of a primitive and N a
\* decimal length, resolves to Array(N, T).
C13_BracketShorthand ==
    /\ \A p \in BracketArrays :
           (Resolved /\ arguments.field_type = p[1])
               => /\ returned.st = "Ok"
                  /\ returned.val = p[2]
    /\ (Resolved /\ arguments.field_type = JStr(Str("[u8; 3]")))
           => returned.val = ArrayT(3, Prim("U8"))
    /\ (Resolved /\ arguments.field_type = JStr(Str("[publicKey; 2]")))
           => returned.val = ArrayT(2, Prim("Pubkey"))

\* C13 witness: "[publicKey; 2]" has resolved to Array(2, Pubkey).
C13_Witness ==
    /\ Resolved
    /\ arguments.field_type = JStr(Str("[publicKey; 2]"))
    /\ returned.st = "Ok"
    /\ returned.val = ArrayT(2, Prim("Pubkey"))

\* The SmallVec length type that a length-width parameter names.
LenType(len_s) == IF len_s = Str("u8") THEN "U8" ELSE "U16"

\* The names of the primitives and their types.
Primitives == SubSeq(RawSchemaTypes, 1, 16)

\* The schema on which the parser of the call resolves a name of the table
\* of types.
TypeResolution(type_name) == parse_type(ParserTypeMap, type_name, arguments.parsed_cache, {})

\* The descriptors of a primitive element with the SmallVec they stand
\* for, and the descriptors of a defined element with their length type
\* and the name of the element.
PrimitiveSmallVecs ==
    {<<Defined(SmallVecName(l, Primitives[i][1])), SmallVecT(LenType(l), Primitives[i][2])>> :
         l \in {Str("u8"), Str("u16")}, i \in 1..Len(Primitives)}
DefinedSmallVecs ==
    {<<Defined(SmallVecName(l, e)), LenType(l), e>> :
         l \in {Str("u8"), Str("u16")}, e \in DOMAIN ParserTypeMap}

MalformedDescriptors ==
    {Defined(Descriptor(ps)) :
         ps \in {qs \in UNION {[1..n -> DescriptorParams] : n \in 1..3} :
                    Len(qs) # 2 \/ qs[1] \notin {Str("u8"), Str("u16")}}}

\* C15: a SmallVec descriptor that has one parameter, or three, or whose
\* first parameter is neither u8 nor u16, resolves to no schema: the
\* outcome is a failure value.
C15_MalformedDescriptor ==
    (Resolved /\ arguments.field_type \in MalformedDescriptors) => returned.st = "Err"

\* C15 witness: SmallVec<u32,u8> has been rejected.
C15_Witness ==
    /\ Resolved
    /\ arguments.field_type = Defined(Str("SmallVec<u32,u8>"))
    /\ returned.st = "Err"
    /\ returned.cause = "Unsupported SmallVec len type"

\* camel_to_snake_case has returned.
Converted == Returned /\ callee = "camel_to_snake_case"

\* The character at position i of s is an uppercase letter, not at the
\* start of s, directly followed by a lowercase letter or a digit.
Underscored(s, i) ==
    /\ s[i] \in 65..90
    /\ i > 1
    /\ i < Len(s)
    /\ (s[i + 1] \in 97..122 \/ s[i + 1] \in 48..57)

\* The number of underscores inserted up to position i of s.
Underscores(s, i) == Cardinality({j \in 1..i : Underscored(s, j)})

\* The names of the examples and their conversions.
SnakeExamples ==
    {<<Str("mintV1"), Str("mint_v1")>>,
     <<Str("CreateTree"), Str("create_tree")>>,
     <<Str("NFTMetadataUpdate"), Str("nft_metadata_update")>>,
     <<Str("doAbc123"), Str("do_abc123")>>}

\* C16: the snake_case conversion of a name is the name with every
\* uppercase letter lowercased and an underscore immediately before each
\* uppercase letter that is not at the start and is directly followed by a
\* lowercase letter or a digit, and nothing else changed; mintV1,
\* CreateTree, NFTMetadataUpdate and doAbc123 give mint_v1, create_tree,
\* nft_metadata_update and do_abc123.
C16_SnakeCase ==
    /\ Converted =>
           LET s == arguments.s
               r == returned.val
           IN  /\ Len(r) = Len(s) + Underscores(s, Len(s))
               /\ \A i \in 1..Len(s) :
                      /\ r[i + Underscores(s, i)] =
                             (IF s[i] \in 65..90 THEN s[i] + 32 ELSE s[i])
                      /\ Underscored(s, i) => r[i + Underscores(s, i) - 1] = 95
    /\ \A p \in SnakeExamples :
           (Converted /\ arguments.s = p[1]) => returned.val = p[2]
C16_Witness ==
    /\ Converted
    /\ arguments.s = Str("NFTMetadataUpdate")
    /\ returned.val = Str("nft_metadata_update")

(***************************************************************************)
(* Claims on the discriminators of the compiler.                           *)
(***************************************************************************)

\* The names of the entries of the documents, each with the table it
\* belongs to and the text that is hashed for it.
ImplicitSeeds ==
    {<<"accounts", NameA, Str("account:a")>>,
     <<"accounts", NameB, Str("account:b")>>,
     <<"accounts", NameC, Str("account:c")>>,
     <<"instructions", Str("mintV1"), Str("global:mint_v1")>>,
     <<"instructions", Str("CreateTree"), Str("global:create_tree")>>,
     <<"instructions", Str("doIt"), Str("global:do_it")>>}

\* The document has an entry of that name without explicit discriminator.
HasImplicit(key, name) ==
    \E i \in 1..Len(EntriesOf(key)) :
        LET entry == EntriesOf(key)[i]
        IN  /\ entry.j = "obj"
            /\ Get(entry.m, "name") = JStr(name)
            /\ DOMAIN entry.m \cap {"discriminant", "discriminator"} = {}

\* The keys and the width of a table of the compiled index.
KeysOf(key) ==
    LET table == IF key = "accounts" THEN on_chain_idl.val.accounts
                 ELSE on_chain_idl.val.instruction_params
    IN  {table[i][1] : i \in 1..Len(table)}
WidthOf(key) ==
    IF key = "accounts" THEN on_chain_idl.val.account_disc_len
    ELSE on_chain_idl.val.instruction_disc_len

\* C17: in every index compiled from a document, whatever the order in
\* which the types were resolved and the tables collected, an account entry
\* without explicit discriminator is under the first 8 bytes of
\* hash("account:" + name), an instruction entry without one under the
\* first 8 bytes of hash("global:" + snake_case(name)), and the width of
\* its table is 8.
C17_ImplicitDiscriminators ==
    (Compiled /\ on_chain_idl.st = "Ok") =>
        \A p \in ImplicitSeeds :
            HasImplicit(p[1], p[2]) =>
                /\ SubSeq(hash(p[3]), 1, 8) \in KeysOf(p[1])
                /\ WidthOf(p[1]) = 8
C17_Witness ==
    /\ Compiled
    /\ on_chain_idl.st = "Ok"
    /\ HasImplicit("instructions", Str("CreateTree"))
    /\ HasImplicit("accounts", NameB)
    /\ SubSeq(hash(Str("global:create_tree")), 1, 8) \in KeysOf("instructions")
    /\ SubSeq(hash(Str("account:b")), 1, 8) \in KeysOf("accounts")

\* parse_any_discriminator has returned.
ParsedDiscriminator == Returned /\ callee = "parse_any_discriminator"

\* The shapes of an explicit discriminator: the object of a type string
\* with an integer value, and the array of bytes.
IsDiscObject(v, typ) ==
    /\ v.j = "obj"
    /\ Get(v.m, "type") = JStr(typ)
    /\ Get(v.m, "value").j = "num"
IsByteArray(v) ==
    /\ v.j = "arr"
    /\ \A i \in 1..Len(v.items) : v.items[i].j = "num" /\ v.items[i].n \in 0..255

\* C18: the object form of type u8 gives width 1 and of type u64 width 8,
\* the key being its value; the byte-array form gives the length of the
\* array as width and as key the little-endian value of its first
\* min(length, 8) bytes, zero-padded; every other type string and every
\* other JSON shape is a failure.
C18_ExplicitDiscriminator ==
    ParsedDiscriminator =>
        LET v == arguments.v
        IN  /\ IsDiscObject(v, Str("u8")) =>
                   returned = POk(<<LeBytes(v.m["value"].n, 8), 1>>)
            /\ IsDiscObject(v, Str("u64")) =>
                   returned = POk(<<LeBytes(v.m["value"].n, 8), 8>>)
            /\ IsByteArray(v) =>
                   returned =
                       POk(<<[i \in 1..8 |-> IF i <= Len(v.items) THEN v.items[i].n ELSE 0],
                             Len(v.items)>>)
            /\ ~(IsDiscObject(v, Str("u8")) \/ IsDiscObject(v, Str("u64")) \/ IsByteArray(v))
                   => returned.st = "Err"

(***************************************************************************)
(* Claims on the name-to-definition table.                                 *)
(***************************************************************************)

\* parse_accounts has returned the table.
Merged == Returned /\ callee = "parse_accounts" /\ returned.st = "Ok"

\* The positions of the account entries of that name that carry an inline
\* type definition.
Inline(name) ==
    LET list == arguments.root["accounts"].items
    IN  {i \in 1..Len(list) : list[i].m["name"] = JStr(name) /\ "type" \in DOMAIN list[i].m}

\* C19: after the accounts are merged into the name-to-definition table,
\* every entry that was present is unchanged, a name that was absent is
\* present exactly if an account entry of that name carries an inline type
\* definition, and it is then bound to the first such entry.
C19_FirstDefinitionWins ==
    Merged =>
        LET before == arguments.idl_type_map
            after == returned.val
            list == arguments.root["accounts"].items
        IN  /\ \A name \in DOMAIN before : name \in DOMAIN after /\ after[name] = before[name]
            /\ \A name \in {NameA, NameB, NameC, Str("n")} \ DOMAIN before :
                   /\ name \in DOMAIN after <=> Inline(name) # {}
                   /\ Inline(name) # {} =>
                          \E i \in Inline(name) :
                              /\ \A k \in Inline(name) : i <= k
                              /\ after[name] = list[i].m
C19_Witness ==
    /\ Merged
    /\ NameA \in DOMAIN arguments.idl_type_map
    /\ Cardinality(Inline(NameA)) = 1
    /\ Cardinality(Inline(Str("n"))) = 2
    /\ \E i, k \in Inline(Str("n")) :
           /\ i < k
           /\ arguments.root["accounts"].items[i] # arguments.root["accounts"].items[k]
           /\ returned.val[Str("n")] = arguments.root["accounts"].items[i].m
    /\ returned.val[NameA] = arguments.idl_type_map[NameA]

(***************************************************************************)
(* Claims on unknown kinds and tags.                                       *)
(***************************************************************************)

\* The field type of the call is an object whose key is none of vec,
\* option, array and defined.
HasUnknownTag ==
    /\ arguments.field_type.j = "obj"
    /\ DOMAIN arguments.field_type.m # {}
    /\ DOMAIN arguments.field_type.m \cap {"vec", "option", "array", "defined"} = {}

\* C20: a reference to a type of an unknown kind, a field type of an
\* unknown tag, and a bare type string that names no primitive and is not
\* bracket shorthand each return a failure to the caller: no crash and no
\* schema.
C20_UnknownKindAndTag ==
    Resolved =>
        /\ arguments.field_type = Defined(Str("d")) => returned.st = "Err"
        /\ HasUnknownTag => returned.st = "Err"
        /\ arguments.field_type \in {JStr(n) : n \in UnknownNames} => returned.st = "Err"

(***************************************************************************)
(* Claims on the failures of the compiler.                                 *)
(***************************************************************************)

\* The items of the array under key of an object, none if it is no array.
Items(m, key) == IF Get(m, key).j = "arr" THEN Get(m, key).items ELSE <<>>

\* A top-level array of the document is missing or is not an array.
LacksTopLevelArray ==
    \E key \in {"types", "accounts", "instructions"} : Get(json.m, key).j # "arr"

\* An object that has one of the keys name and type and not the other.
LacksNameOrType(v) ==
    v.j = "obj" /\ Cardinality(DOMAIN v.m \cap {"name", "type"}) = 1

\* A named type, a field of a struct, or an argument of an instruction
\* lacks its name or its type; a variant of an enum lacks its name.
NamedTypeLacksKey ==
    \E i \in 1..Len(Items(json.m, "types")) : LacksNameOrType(Items(json.m, "types")[i])
LayoutOf(t) == IF t.j = "obj" /\ Get(t.m, "type").j = "obj" THEN t.m["type"].m ELSE EmptyMap
FieldLacksKey ==
    \E i \in 1..Len(Items(json.m, "types")) :
        \E k \in 1..Len(Items(LayoutOf(Items(json.m, "types")[i]), "fields")) :
            LacksNameOrType(Items(LayoutOf(Items(json.m, "types")[i]), "fields")[k])
VariantLacksName ==
    \E i \in 1..Len(Items(json.m, "types")) :
        \E k \in 1..Len(Items(LayoutOf(Items(json.m, "types")[i]), "variants")) :
            LET variant == Items(LayoutOf(Items(json.m, "types")[i]), "variants")[k]
            IN  variant.j = "obj" /\ "name" \notin DOMAIN variant.m
ArgumentLacksKey ==
    \E i \in 1..Len(Items(json.m, "instructions")) :
        LET instruction == Items(json.m, "instructions")[i]
        IN  /\ instruction.j = "obj"
            /\ \E k \in 1..Len(Items(instruction.m, "args")) :
                   LacksNameOrType(Items(instruction.m, "args")[k])

\* C21: parse_idl fails on a document in which one of the arrays types,
\* accounts and instructions is missing or is no array, and on a document
\* in which a named type, a struct field or an instruction argument lacks
\* its name or its type or an enum variant lacks its name.
C21_MissingKeysRejected ==
    (Compiled /\ json.j = "obj") =>
        /\ LacksTopLevelArray => on_chain_idl.st # "Ok"
        /\ NamedTypeLacksKey => on_chain_idl.st # "Ok"
        /\ FieldLacksKey => on_chain_idl.st # "Ok"
        /\ VariantLacksName => on_chain_idl.st # "Ok"
        /\ ArgumentLacksKey => on_chain_idl.st # "Ok"

(***************************************************************************)
(* Claims on the shared Program Index.                                     *)
(***************************************************************************)

\* C22: after any sequence of get_parsed_account and get_parsed_instruction
\* calls, failed ones included, the index is the one every call of the
\* sequence found, and two calls with the same bytes, addresses and
\* show_hidden have the same outcome whatever was called between them.
C22_IndexUnchanged ==
    mode = "shared" =>
        /\ \A i \in 1..Len(history) : history[i].idl = idl
        /\ \A i, k \in 1..Len(history) :
               history[i].input = history[k].input => history[i].parsed = history[k].parsed
C22_Witness ==
    /\ mode = "shared"
    /\ Len(history) = 3
    /\ history[1].parsed.st = "Ok"
    /\ history[2].parsed.st = "Err"
    /\ history[3].input = history[1].input
    /\ history[3].parsed = history[1].parsed
    /\ history[1].idl = idl

(***************************************************************************)
(* Claims on the termination of type resolution.                           *)
(***************************************************************************)

\* The name-to-definition table of the document.
TableOf(root) ==
    IF parse_types(root).st # "Ok" THEN EmptyMap
    ELSE IF parse_accounts(root, parse_types(root).val).st # "Ok" THEN EmptyMap
    ELSE parse_accounts(root, parse_types(root).val).val

\* The type that a defined name designates: the element of a SmallVec
\* descriptor, else the name.
Designated(name) ==
    IF StartsWith(name, Str("SmallVec<")) /\ EndsWith(name, Str(">"))
            /\ Len(Split(name, 44)) = 2
    THEN Trim(Take(Split(name, 44)[2], Len(Split(name, 44)[2]) - 1))
    ELSE name

\* The names that the defined references of a JSON value designate.
RECURSIVE Refs(_)
Refs(v) ==
    IF v.j = "arr" THEN UNION {Refs(v.items[i]) : i \in 1..Len(v.items)}
    ELSE IF v.j # "obj" THEN {}
    ELSE IF "defined" \in DOMAIN v.m /\ v.m["defined"].j = "str"
        THEN {Designated(v.m["defined"].s)}
    ELSE UNION {Refs(v.m[key]) : key \in DOMAIN v.m}

\* The field type is an object of an unknown tag.
UnknownTag(field) ==
    /\ field.j = "obj"
    /\ Get(field.m, "type").j = "obj"
    /\ DOMAIN field.m["type"].m \cap {"vec", "option", "array", "defined"} = {}

\* The references of a definition, and those of them that no field of an
\* unknown tag precedes.
AllRefs(def) == Refs(JObj(def))
ReachedRefs(def) ==
    LET fields == Items(LayoutOf(JObj(def)), "fields")
    IN  UNION {Refs(fields[i]) :
                   i \in {k \in 1..Len(fields) : \A h \in 1..(k - 1) : ~UnknownTag(fields[h])}}
            \cup Refs(JArr(Items(LayoutOf(JObj(def)), "variants")))

\* The names reached from name in at most n references.
RECURSIVE Reach(_, _, _, _)
Reach(table, refs(_), names, n) ==
    IF n = 0 THEN names
    ELSE Reach(table, refs,
               names \cup UNION {refs(table[x]) \cap DOMAIN table : x \in names}, n - 1)
Cyclic(table, refs(_)) ==
    \E name \in DOMAIN table :
        name \in Reach(table, refs, refs(table[name]) \cap DOMAIN table,
                        Cardinality(DOMAIN table))

HasCycle == Cyclic(TableOf(json.m), AllRefs)
HasReachedCycle == Cyclic(TableOf(json.m), ReachedRefs)
Diverged == on_chain_idl.st = "StackOverflow"

\* C23 as stated: resolution fails to terminate exactly on the documents
\* whose defined references form a cycle.
C23_DivergesOnEveryCycle ==
    (Compiled /\ json.j = "obj") => (Diverged <=> HasCycle)

\* C23: type resolution terminates on every document whose defined
\* references form no cycle, and it recurses without terminating when a
\* cycle of references is reached, that is when no field that fails
\* precedes the reference in its type.
C23_TerminatesIfAcyclic ==
    (Compiled /\ json.j = "obj") =>
        /\ Diverged => HasCycle
        /\ HasReachedCycle => Diverged
C23_Witness ==
    /\ Compiled
    /\ json.j = "obj"
    /\ HasReachedCycle
    /\ Diverged
    /\ Get(json.m, "types") = JArr(<<TypeAToC, TypeB, TypeCToA>>)

(***************************************************************************)
(* Claims on the types that fail to resolve.                               *)
(***************************************************************************)

\* The name is absent from the table of the document or its resolution
\* does not give a schema.
FailsToResolve(name) ==
    \/ name \notin DOMAIN TableOf(json.m)
    \/ parse_type(TableOf(json.m), name, EmptyMap, {}).st # "Ok"

\* The names that the account entries bear and that the arguments of the
\* instructions reference.
UsedNames ==
    {Items(json.m, "accounts")[i].m["name"].s : i \in 1..Len(Items(json.m, "accounts"))}
        \cup UNION {Refs(JArr(Items(Items(json.m, "instructions")[i].m, "args"))) :
                        i \in 1..Len(Items(json.m, "instructions"))}

\* parse_idl has returned for a document whose types and account entries
\* are well-formed.
TableBuilt ==
    /\ Compiled
    /\ json.j = "obj"
    /\ parse_types(json.m).st = "Ok"
    /\ parse_accounts(json.m, parse_types(json.m).val).st = "Ok"

\* C24: a document some of whose named types fail to resolve, none of them
\* used by an account entry or by the arguments of an instruction,
\* compiles; a document in which an account entry or a defined reference of
\* an argument designates a type that fails to resolve or is absent does
\* not.
C24_UnusedFailuresSkipped ==
    TableBuilt =>
        /\ (/\ \E name \in DOMAIN TableOf(json.m) : FailsToResolve(name)
            /\ \A name \in UsedNames : ~FailsToResolve(name)
            /\ ~HasCycle)
               => on_chain_idl.st = "Ok"
        /\ (\E name \in UsedNames : FailsToResolve(name)) => on_chain_idl.st # "Ok"

(***************************************************************************)
(* Claims on the decoding of Option.                                       *)
(***************************************************************************)

\* An Option of an unsigned integer of one or two bytes was decoded.
OptionDecoded == Decoded /\ node.typ \in {OptionT(U8), OptionT(U16)}
InnerWidth == IF node.typ.inner = U8 THEN 1 ELSE 2
Absence == [k |-> "Option", some |-> FALSE, inner |-> None]

\* C25: decoding an Option reads one flag byte; on flag 1 the Option is
\* present and its inner value is decoded from the bytes after the flag,
\* on flag 0 it is absent and the cursor stands right after the flag.
C25_OptionFlag ==
    OptionDecoded =>
        /\ bytes = <<>> => value.st = "Err"
        /\ (bytes # <<>> /\ bytes[1] = 1 /\ Len(bytes) < 1 + InnerWidth) => value.st = "Err"
        /\ (bytes # <<>> /\ bytes[1] = 1 /\ Len(bytes) >= 1 + InnerWidth) =>
               /\ value.st = "Ok"
               /\ value.val.value.k = "Option"
               /\ value.val.value.some
               /\ value.val.value.inner.v =
                      (IF InnerWidth = 1 THEN bytes[2] ELSE bytes[2] + 256 * bytes[3])
               /\ value.rest = SubSeq(bytes, 2 + InnerWidth, Len(bytes))
        /\ (bytes # <<>> /\ bytes[1] = 0) =>
               /\ value.st = "Ok"
               /\ value.val.value = Absence
               /\ value.rest = SubSeq(bytes, 2, Len(bytes))
C25_Witness ==
    /\ OptionDecoded
    /\ node.typ = OptionT(U16)
    /\ bytes = <<0, 127, 1>>
    /\ value.st = "Ok"
    /\ value.val.value = Absence
    /\ value.rest = <<127, 1>>

\* The struct of an Option field and a byte field.
OptionThenByte ==
    StructT(<<SchemaNode(NameA, OptionT(U8), FALSE), SchemaNode(NameB, U8, FALSE)>>)

\* C26: a flag byte other than 0 and 1 is not refused: the Option is
\* absent, only the flag byte is consumed, and the byte that follows is
\* decoded as the next field of the struct.
C26_OtherFlagIsAbsent ==
    /\ (OptionDecoded /\ bytes # <<>> /\ bytes[1] \notin {0, 1}) =>
           /\ value.st = "Ok"
           /\ value.val.value = Absence
           /\ value.rest = SubSeq(bytes, 2, Len(bytes))
    /\ (Decoded /\ node.typ = OptionThenByte /\ Len(bytes) >= 2 /\ bytes[1] \notin {0, 1}) =>
           /\ value.st = "Ok"
           /\ value.val.value.fields =
                  <<ValueNode(NameA, Absence), ValueNode(NameB, [k |-> "U8", v |-> bytes[2]])>>
           /\ value.rest = SubSeq(bytes, 3, Len(bytes))
C26_Witness ==
    /\ Decoded
    /\ node.typ = OptionThenByte
    /\ bytes = <<2, 127, 1>>
    /\ value.st = "Ok"
    /\ value.val.value.fields[2].value.v = 127
    /\ value.rest = <<1>>

(***************************************************************************)
(* Claims on hiding.                                                       *)
(***************************************************************************)

\* The decode of the same node and buffer with show_hidden = true.
Shown == SchemaNode_deserialize_bytes(node, bytes, TRUE)

\* The variant of an enum that a decoded value names.
VariantOf(nodes, v) == CHOOSE i \in 1..Len(nodes) : nodes[i].name = v.variant.name

\* A value decoded with show_hidden = true selects a hidden variant of an
\* enum somewhere.
RECURSIVE SelectsHidden(_, _)
SelectsHidden(v, t) ==
    CASE t.k = "Struct" ->
            \E i \in 1..Len(t.nodes) : SelectsHidden(v.fields[i].value, t.nodes[i].typ)
      [] t.k = "Enum" ->
            \/ t.nodes[VariantOf(t.nodes, v)].is_hidden
            \/ SelectsHidden(v.variant.value, t.nodes[VariantOf(t.nodes, v)].typ)
      [] t.k = "Option" -> v.some /\ SelectsHidden(v.inner, t.inner)
      [] t.k \in {"Array", "Vec", "SmallVec"} ->
            v.k # "Bytes" /\ \E i \in 1..Len(v.items) : SelectsHidden(v.items[i], t.inner)
      [] t.k = "Tuple" -> \E i \in 1..Len(t.items) : SelectsHidden(v.items[i], t.items[i])
      [] OTHER -> FALSE

\* A value decoded with show_hidden = true, without the fields of its
\* structs that are hidden.
RECURSIVE Visible(_, _)
RECURSIVE VisibleFields(_, _)
VisibleFields(fields, nodes) ==
    IF nodes = <<>> THEN <<>>
    ELSE (IF Head(nodes).is_hidden THEN <<>>
          ELSE <<ValueNode(Head(fields).name, Visible(Head(fields).value, Head(nodes).typ))>>)
             \o VisibleFields(Tail(fields), Tail(nodes))
Visible(v, t) ==
    CASE t.k = "Struct" -> [v EXCEPT !.fields = VisibleFields(v.fields, t.nodes)]
      [] t.k = "Enum" ->
            [v EXCEPT !.variant =
                 ValueNode(v.variant.name,
                           Visible(v.variant.value, t.nodes[VariantOf(t.nodes, v)].typ))]
      [] t.k = "Option" -> IF v.some THEN [v EXCEPT !.inner = Visible(v.inner, t.inner)] ELSE v
      [] t.k \in {"Array", "Vec", "SmallVec"} ->
            IF v.k = "Bytes" THEN v
            ELSE [v EXCEPT !.items = [i \in 1..Len(v.items) |-> Visible(v.items[i], t.inner)]]
      [] t.k = "Tuple" ->
            [v EXCEPT !.items = [i \in 1..Len(v.items) |-> Visible(v.items[i], t.items[i])]]
      [] OTHER -> v

\* C27: a decode with show_hidden = false succeeds exactly when the decode
\* of the same node and buffer with show_hidden = true does, unless a
\* hidden variant of an enum is selected; both leave the cursor at the same
\* place, and its result is the other's without the hidden fields of the
\* structs (nothing at all for a node that is hidden itself).
C27_HidingKeepsCursor ==
    (Decoded /\ ~show_hidden) =>
        /\ value.st = "Ok" => Shown.st = "Ok"
        /\ (Shown.st = "Ok" /\ ~SelectsHidden(Shown.val.value, node.typ)) =>
               /\ value.st = "Ok"
               /\ value.rest = Shown.rest
               /\ value.val =
                      (IF node.is_hidden THEN None
                       ELSE ValueNode(node.name, Visible(Shown.val.value, node.typ)))
C27_Witness ==
    /\ Decoded /\ ~show_hidden
    /\ node.typ = StructT(<<SchemaNode(NameA, StructT(HiddenPair), FALSE),
                            SchemaNode(NameB, U8, FALSE)>>)
    /\ bytes = <<1, 2, 127>>
    /\ value.st = "Ok"
    /\ value.rest = <<>>
    /\ Len(Shown.val.value.fields[1].value.fields) = 2
    /\ value.val.value.fields[1].value.fields = <<ValueNode(NameB, [k |-> "U8", v |-> 2])>>

(***************************************************************************)
(* Claims on the keys of the compiled index.                               *)
(***************************************************************************)

\* The table of the compiled index under key.
TableUnder(key) ==
    IF key = "accounts" THEN on_chain_idl.val.accounts ELSE on_chain_idl.val.instruction_params

\* The name that the entry at position i of a table of the index bears.
NameAt(key, i) ==
    IF key = "accounts" THEN TableUnder(key)[i][2].name
    ELSE TableUnder(key)[i][2].instruction_args_parser.name

\* The entries at positions i < k of the document carry the same explicit
\* discriminator.
SameDiscriminator(key, i, k) ==
    /\ i < k
    /\ k <= Len(EntriesOf(key))
    /\ ExplicitDiscriminator(EntriesOf(key)[i].m) # Absent
    /\ ExplicitDiscriminator(EntriesOf(key)[i].m) = ExplicitDiscriminator(EntriesOf(key)[k].m)

\* The key that the entry at position i of the document resolves to.
KeyOfEntry(key, i) ==
    LET entry == EntriesOf(key)[i].m
    IN  IF ExplicitDiscriminator(entry) # Absent
        THEN parse_any_discriminator(ExplicitDiscriminator(entry)).val[1]
        ELSE IF key = "accounts" THEN parse_implicit_discriminant(entry["name"].s).val[1]
        ELSE parse_implicit_instruction_discriminant(entry["name"].s).val[1]

\* The entries of each table of the document have one discriminator width,
\* of one to eight bytes.
UniformWidths ==
    \A key \in {"accounts", "instructions"} :
        /\ Cardinality(Widths(key)) <= 1
        /\ Widths(key) \subseteq 1..8

\* C28: no two entries of a table of a compiled index have the same key;
\* of two entries of the document with the same discriminator the later
\* one is in the index, and the document compiles all the same.
C28_UniqueKeys ==
    \A key \in {"accounts", "instructions"} :
        /\ (Compiled /\ on_chain_idl.st = "Ok") =>
               /\ \A i, k \in 1..Len(TableUnder(key)) :
                      TableUnder(key)[i][1] = TableUnder(key)[k][1] => i = k
               /\ Len(TableUnder(key)) =
                      Cardinality({KeyOfEntry(key, i) : i \in 1..Len(EntriesOf(key))})
               /\ \A p \in 1..Len(TableUnder(key)) :
                      \E i \in 1..Len(EntriesOf(key)) :
                          /\ KeyOfEntry(key, i) = TableUnder(key)[p][1]
                          /\ NameAt(key, p) = EntriesOf(key)[i].m["name"].s
                          /\ \A k \in (i + 1)..Len(EntriesOf(key)) :
                                 KeyOfEntry(key, k) # TableUnder(key)[p][1]
        /\ (Compiled /\ (\E i, k \in 1..Len(EntriesOf(key)) : SameDiscriminator(key, i, k))
                /\ UniformWidths
                /\ Get(json.m, "types") = JArr(PlainTypes))
               => on_chain_idl.st = "Ok"
C28_Witness ==
    /\ Compiled
    /\ on_chain_idl.st = "Ok"
    /\ SameDiscriminator("accounts", 1, 2)
    /\ EntriesOf("accounts")[1].m["name"] = JStr(NameA)
    /\ Len(on_chain_idl.val.accounts) = 1
    /\ on_chain_idl.val.accounts[1][2].name = NameB

\* C29: every key of a compiled index fits the width of its table: the
\* bytes of the key beyond the width are zero, so that the first width
\* bytes of some input give the key.
C29_KeysFitWidth ==
    (Compiled /\ on_chain_idl.st = "Ok") =>
        \A key \in {"accounts", "instructions"} :
            \A i \in 1..Len(TableUnder(key)) :
                \A b \in (WidthOf(key) + 1)..8 : TableUnder(key)[i][1][b] = 0

(***************************************************************************)
(* Claims on the nodes of the compiled index.                              *)
(***************************************************************************)

\* The node or a node below it is hidden.
RECURSIVE AnyHidden(_)
RECURSIVE AnyHiddenIn(_)
AnyHiddenIn(t) ==
    CASE t.k \in {"Struct", "Enum"} -> \E i \in 1..Len(t.nodes) : AnyHidden(t.nodes[i])
      [] t.k \in {"Option", "Array", "Vec", "SmallVec"} -> AnyHiddenIn(t.inner)
      [] t.k = "Tuple" -> \E i \in 1..Len(t.items) : AnyHiddenIn(t.items[i])
      [] OTHER -> FALSE
AnyHidden(nd) == nd.is_hidden \/ AnyHiddenIn(nd.typ)

\* Inputs that select the entry at position i of a table of the index: its
\* key in the width of the table, and a payload.
Payloads == Bufs(MaxPayload) \cup {<<1, 0, 0, 0, 0>>}
Selecting(key, i) ==
    {SubSeq(TableUnder(key)[i][1], 1, Min(WidthOf(key), 8)) \o p : p \in Payloads}

\* C30: in a compiled index no account schema, no argument schema and no
\* node below them is hidden, and no decode of an input that selects one of
\* its entries depends on show_hidden.
C30_NothingHidden ==
    (Compiled /\ on_chain_idl.st = "Ok") =>
        /\ \A i \in 1..Len(on_chain_idl.val.accounts) :
               /\ ~AnyHidden(on_chain_idl.val.accounts[i][2])
               /\ \A d \in Selecting("accounts", i) :
                      get_parsed_account(on_chain_idl.val, d, FALSE)
                          = get_parsed_account(on_chain_idl.val, d, TRUE)
        /\ \A i \in 1..Len(on_chain_idl.val.instruction_params) :
               /\ ~AnyHidden(on_chain_idl.val.instruction_params[i][2].instruction_args_parser)
               /\ \A d \in Selecting("instructions", i) :
                      get_parsed_instruction(on_chain_idl.val, d, <<>>, FALSE)
                          = get_parsed_instruction(on_chain_idl.val, d, <<>>, TRUE)
C30_Witness ==
    /\ Compiled
    /\ on_chain_idl.st = "Ok"
    /\ Len(on_chain_idl.val.accounts) = 3
    /\ \E i \in 1..3 :
           /\ on_chain_idl.val.accounts[i][2].name = NameC
           /\ Len(on_chain_idl.val.accounts[i][2].typ.nodes) = 5
           /\ ~AnyHidden(on_chain_idl.val.accounts[i][2])
    /\ \E i \in 1..Len(on_chain_idl.val.instruction_params) :
           \E d \in Selecting("instructions", i) :
               /\ get_parsed_instruction(on_chain_idl.val, d, <<>>, FALSE).st = "Ok"
               /\ get_parsed_instruction(on_chain_idl.val, d, <<>>, FALSE).val.value.k = "Struct"

=============================================================================
